---------------------------- MODULE Spec2Model ----------------------------
(***************************************************************************)
(* Model of electrumsv/transaction.py: the byte-stream codec                *)
(* (_BCDataStream), the script tokenizer and classifier, and the            *)
(* Transaction object (lazy parse, serialization, signing).                 *)
(*                                                                          *)
(* Representation.  A Python bytes value and the lowercase hex string that  *)
(* bh2u makes of it are both modelled as the sequence of its byte values    *)
(* (0..255); len(hex)//2 is therefore Len.  Python None is the sequence     *)
(* None == <<-1>>, a dict key that is not present is Absent == <<-2>> (for  *)
(* bytes valued keys), AbsentList (for list valued keys) or NoKey (for      *)
(* integer valued keys).  An operation that raises returns a record whose   *)
(* err field names the exception.                                           *)
(*                                                                          *)
(* Integers.  TLC's integers have 32 bits, the wire format has fields of    *)
(* 32 and 64 bits.  The value of a fixed-width field (version, prevout_n,   *)
(* sequence, value, locktime) is therefore modelled as the little-endian    *)
(* byte string of the field's width, which struct.pack and int_to_hex make  *)
(* of it: reading and writing such a field keep the bytes.  Lengths and     *)
(* counts (compact sizes, push lengths) are integers; one that does not fit *)
(* is read as 2^30, which is beyond the end of every buffer of the model.   *)
(***************************************************************************)
EXTENDS Integers, Sequences, FiniteSets, TLC

(***************************************************************************)
(* Python values                                                            *)
(***************************************************************************)
None == <<-1>>
Absent == <<-2>>
AbsentList == << <<-2>> >>
NoKey == -2

\* NO_SIGNATURE = 'ff'
NO_SIGNATURE == <<255>>

\* Python truthiness of a signature slot: None and '' are falsy.
Truthy(x) == x # None /\ x # <<>>

Min(a, b) == IF a < b THEN a ELSE b
Max(a, b) == IF a > b THEN a ELSE b

\* The value v under the name that F gives it (a local variable).
With(v, F(_)) == F(v)

\* Python slice s[a:b] for 0 <= a, 0 <= b (0-based, clamped to the sequence).
Slice(s, a, b) ==
  LET hi == Min(b, Len(s))
  IN IF a >= hi THEN <<>> ELSE SubSeq(s, a + 1, hi)

Reverse(s) == [k \in 1..Len(s) |-> s[Len(s) + 1 - k]]

RECURSIVE Pow256(_)
Pow256(n) == IF n = 0 THEN 1 ELSE 256 * Pow256(n - 1)

\* The n little-endian bytes of an integer below 2^31.
LE(i, n) == [k \in 1..n |-> IF k > 4 THEN 0 ELSE (i \div Pow256(k - 1)) % 256]

\* struct.unpack of an unsigned little-endian length or count.
RECURSIVE FromLESmall(_)
FromLESmall(s) == IF s = <<>> THEN 0 ELSE s[1] + 256 * FromLESmall(Tail(s))

FromLE(s) ==
  IF \E k \in 1..Len(s) : s[k] # 0 /\ (k > 4 \/ (k = 4 /\ s[k] >= 64))
  THEN 1073741824
  ELSE FromLESmall(s)

\* A fixed-width number given by its little-endian bytes, as an integer
\* (for the numbers below 2^24 only).
IsSmall(n) == \A k \in 1..Len(n) : k > 3 => n[k] = 0
IntOf(n) == FromLESmall(n)

\* A Python int in [0, 2^64) where its size matters: its 8 little-endian
\* bytes.  U64(s) extends the little-endian bytes s to 8, U64Below(n, w)
\* says that n < 2^(8w), and MinusOne stands for the int -1.
U64(s) == [k \in 1..8 |-> IF k <= Len(s) THEN s[k] ELSE 0]
U64Below(n, w) == \A k \in (w + 1)..8 : n[k] = 0
MinusOne == <<-1, 0, 0, 0, 0, 0, 0, 0>>


RECURSIVE Flatten(_)
Flatten(ss) == IF ss = <<>> THEN <<>> ELSE ss[1] \o Flatten(Tail(ss))

RECURSIVE SumSeq(_)
SumSeq(s) == IF s = <<>> THEN 0 ELSE s[1] + SumSeq(Tail(s))

\* Lexicographic order on byte sequences (Python's order on str and bytes).
RECURSIVE LexLess(_, _)
LexLess(a, b) ==
  IF b = <<>> THEN FALSE
  ELSE IF a = <<>> THEN TRUE
  ELSE IF a[1] # b[1] THEN a[1] < b[1]
  ELSE LexLess(Tail(a), Tail(b))

\* Numeric order of two unsigned numbers of the same width.
NumLess(a, b) == LexLess(Reverse(a), Reverse(b))

(***************************************************************************)
(* Opcodes (bitcoinx.Ops)                                                   *)
(***************************************************************************)
OP_0 == 0
OP_PUSHDATA1 == 76
OP_PUSHDATA2 == 77
OP_PUSHDATA4 == 78
OP_1 == 81
OP_CHECKMULTISIG == 174

(***************************************************************************)
(* _BCDataStream, in functional form: a read takes the buffer and the read  *)
(* cursor and returns [err, val, cur].                                      *)
(***************************************************************************)
Ok(v, c) == [err |-> "", val |-> v, cur |-> c]
Fail(e, c) == [err |-> e, val |-> <<>>, cur |-> c]

\* read_bytes: the slice never raises IndexError, the cursor moves by length.
read_bytes(input, cursor, length) ==
  Ok(Slice(input, cursor, cursor + length), cursor + length)

\* _read_num: struct.unpack_from raises when fewer than size bytes remain.
\* The value is the number's little-endian bytes.
_read_num(input, cursor, size) ==
  IF cursor + size > Len(input)
  THEN Fail("SerializationError", cursor)
  ELSE Ok(Slice(input, cursor, cursor + size), cursor + size)

read_int32(input, cursor) == _read_num(input, cursor, 4)
read_uint32(input, cursor) == _read_num(input, cursor, 4)
read_uint64(input, cursor) == _read_num(input, cursor, 8)

\* A length or count read by _read_num, as an integer.
ReadCount(r) == IF r.err # "" THEN r ELSE Ok(FromLE(r.val), r.cur)

\* A decoder that takes marker 255 for a 32-bit size.
ReadCompactSize64_Marker255As32(input, cursor) ==
  IF cursor >= Len(input)
  THEN Fail("SerializationError", cursor)
  ELSE LET size == input[cursor + 1]
           wide(r) == IF r.err # "" THEN r ELSE Ok(U64(r.val), r.cur)
       IN IF size = 253 THEN wide(_read_num(input, cursor + 1, 2))
          ELSE IF size >= 254 THEN wide(_read_num(input, cursor + 1, 4))
          ELSE Ok(U64(<<size>>), cursor + 1)

\* read_compact_size with the size as the code returns it, a number below
\* 2^64 given by its 8 little-endian bytes: [err, val, cur].
ReadCompactSize64(input, cursor) ==
  IF cursor >= Len(input)
  THEN Fail("SerializationError", cursor)
  ELSE LET size == input[cursor + 1]
           wide(r) == IF r.err # "" THEN r ELSE Ok(U64(r.val), r.cur)
       IN IF size = 253 THEN wide(_read_num(input, cursor + 1, 2))
          ELSE IF size = 254 THEN wide(_read_num(input, cursor + 1, 4))
          ELSE IF size = 255 THEN wide(_read_num(input, cursor + 1, 8))
          ELSE Ok(U64(<<size>>), cursor + 1)

\* read_compact_size where the size is a length or a count: an integer
read_compact_size(input, cursor) == ReadCount(ReadCompactSize64(input, cursor))

\* An encoder whose one-byte range includes 253.
write_compact_size_Through253(size) ==
  IF size = MinusOne THEN Fail("SerializationError", 0)
  ELSE IF U64Below(size, 1) /\ size[1] <= 253 THEN Ok(<<size[1]>>, 0)
  ELSE IF U64Below(size, 2) THEN Ok(<<253>> \o SubSeq(size, 1, 2), 0)
  ELSE IF U64Below(size, 4) THEN Ok(<<254>> \o SubSeq(size, 1, 4), 0)
  ELSE Ok(<<255>> \o size, 0)

\* write_compact_size: the bytes appended for size, a number below 2^64
\* given by its 8 little-endian bytes, or MinusOne (an error for size < 0).
\* struct.pack of a number that fits its format is the low bytes of it.
write_compact_size(size) ==
  IF size = MinusOne THEN Fail("SerializationError", 0)
  ELSE IF U64Below(size, 1) /\ size[1] < 253 THEN Ok(<<size[1]>>, 0)
  ELSE IF U64Below(size, 2) THEN Ok(<<253>> \o SubSeq(size, 1, 2), 0)
  ELSE IF U64Below(size, 4) THEN Ok(<<254>> \o SubSeq(size, 1, 4), 0)
  ELSE Ok(<<255>> \o size, 0)

(***************************************************************************)
(* Script tokenizer                                                         *)
(***************************************************************************)
\* A tokenizer that slices one byte more than the push declares.
GetOpStep_OneMore(_bytes, i) ==
  LET blen == Len(_bytes)
      opcode == _bytes[i + 1]
      i1 == i + 1
  IN IF opcode <= OP_PUSHDATA4
     THEN LET nSize == IF opcode = OP_PUSHDATA1
                         THEN (IF i1 < blen THEN _bytes[i1 + 1] ELSE 0)
                       ELSE IF opcode = OP_PUSHDATA2
                         THEN (IF i1 + 2 <= blen
                               THEN FromLE(Slice(_bytes, i1, i1 + 2)) ELSE 0)
                       ELSE IF opcode = OP_PUSHDATA4
                         THEN (IF i1 + 4 <= blen
                               THEN FromLE(Slice(_bytes, i1, i1 + 4)) ELSE 0)
                       ELSE opcode
              i2 == IF opcode = OP_PUSHDATA1 THEN i1 + 1
                    ELSE IF opcode = OP_PUSHDATA2 THEN i1 + 2
                    ELSE IF opcode = OP_PUSHDATA4 THEN i1 + 4
                    ELSE i1
          IN [op |-> opcode, vch |-> Slice(_bytes, i2, i2 + nSize + 1), i |-> i2 + nSize]
     ELSE [op |-> opcode, vch |-> None, i |-> i1]

\* One iteration of the while loop of _script_GetOp at offset i (0-based):
\* the token yielded, (opcode, vch, i after the token).
GetOpStep(_bytes, i) ==
  LET blen == Len(_bytes)
      opcode == _bytes[i + 1]
      i1 == i + 1
  IN IF opcode <= OP_PUSHDATA4
     THEN LET nSize == IF opcode = OP_PUSHDATA1
                         THEN (IF i1 < blen THEN _bytes[i1 + 1] ELSE 0)
                       ELSE IF opcode = OP_PUSHDATA2
                         THEN (IF i1 + 2 <= blen
                               THEN FromLE(Slice(_bytes, i1, i1 + 2)) ELSE 0)
                       ELSE IF opcode = OP_PUSHDATA4
                         THEN (IF i1 + 4 <= blen
                               THEN FromLE(Slice(_bytes, i1, i1 + 4)) ELSE 0)
                       ELSE opcode
              i2 == IF opcode = OP_PUSHDATA1 THEN i1 + 1
                    ELSE IF opcode = OP_PUSHDATA2 THEN i1 + 2
                    ELSE IF opcode = OP_PUSHDATA4 THEN i1 + 4
                    ELSE i1
          IN [op |-> opcode, vch |-> Slice(_bytes, i2, i2 + nSize), i |-> i2 + nSize]
     ELSE [op |-> opcode, vch |-> None, i |-> i1]

RECURSIVE GetOpFrom(_, _)
GetOpFrom(_bytes, i) ==
  IF i < Len(_bytes)
  THEN LET t == GetOpStep(_bytes, i) IN <<t>> \o GetOpFrom(_bytes, t.i)
  ELSE <<>>

\* list(_script_GetOp(_bytes))
_script_GetOp(_bytes) == GetOpFrom(_bytes, 0)

(***************************************************************************)
(* Script pattern classifier                                                *)
(***************************************************************************)
\* A wildcard that matches the direct pushes only, and one that matches
\* OP_0 as well.
MatchesAt_DirectOnly(d, m) ==
  \/ (m = OP_PUSHDATA4 /\ d.op < OP_PUSHDATA1 /\ d.op > 0)
  \/ m = d.op

MatchesAt_AlsoOP0(d, m) ==
  \/ (m = OP_PUSHDATA4 /\ d.op <= OP_PUSHDATA4)
  \/ m = d.op

\* One position of _match_decoded: OP_PUSHDATA4 in to_match is the wildcard
\* for the opcodes 1..OP_PUSHDATA4.
MatchesAt(d, m) ==
  \/ (m = OP_PUSHDATA4 /\ d.op <= OP_PUSHDATA4 /\ d.op > 0)
  \/ m = d.op

_match_decoded(decoded, to_match) ==
  /\ Len(decoded) = Len(to_match)
  /\ \A i \in 1..Len(decoded) : MatchesAt(decoded[i], to_match[i])

\* [x] * n of Python: the empty list for n <= 0.
Repeat(x, n) == [k \in 1..Max(n, 0) |-> x]

\* _parse_sig: the sentinel becomes None.
_parse_sig(x_sig) ==
  [k \in 1..Len(x_sig) |-> IF x_sig[k] = NO_SIGNATURE THEN None ELSE x_sig[k]]

(***************************************************************************)
(* Keys, digests and signatures.  The cryptographic primitives are          *)
(* abstracted: key number k has the compressed public key Pub(k) and the    *)
(* extended public key XPub(k); a digest is a two-byte checksum; the        *)
(* signature of key k over digest h is Sign(k, h).                          *)
(***************************************************************************)
Pub(k) == <<2, k>>
XPub(k) == <<255, k>>
KeyOf(x_pubkey) == x_pubkey[2]

\* The checksum that stands for a digest: the polynomial
\* seed * mult^n + sum of (s[k] + 1) * mult^(n - k), modulo the prime 32749,
\* computed by halving the sequence.
RECURSIVE PowMod(_, _)
PowMod(mult, k) ==
  IF k = 0 THEN 1
  ELSE IF k % 2 = 0 THEN LET h == PowMod(mult, k \div 2) IN (h * h) % 32749
  ELSE (mult * PowMod(mult, k - 1)) % 32749

RECURSIVE PolyRange(_, _, _, _)
PolyRange(s, lo, hi, mult) ==
  IF lo > hi THEN 0
  ELSE IF lo = hi THEN (s[lo] + 1) % 32749
  ELSE LET mid == (lo + hi) \div 2
       IN (PolyRange(s, lo, mid, mult) * PowMod(mult, hi - mid)
             + PolyRange(s, mid + 1, hi, mult)) % 32749

Poly(s, mult, seed) ==
  (seed * PowMod(mult, Len(s)) + PolyRange(s, 1, Len(s), mult)) % 32749

sha256d(s) == LE(Poly(s, 31, 7), 2)
hash_160(s) == LE(Poly(s, 37, 11), 2)

\* keystore.xpubkey_to_pubkey: a raw key (02, 03, 04) is itself, a bip32
\* extended key (ff) resolves to its derived key, anything else fails.
xpubkey_resolves(x) == Len(x) >= 2 /\ x[1] \in {2, 3, 4, 255}
xpubkey_to_pubkey(x) == IF x[1] = 255 THEN <<2>> \o Tail(x) ELSE x

\* Address objects: P2PKH and P2SH addresses of a hash, the address of an
\* input nobody classified, and their locking scripts.
P2PKH_Address(h) == <<0>> \o h
P2SH_Address(h) == <<5>> \o h
UnknownAddress == <<-3>>
address_to_script_bytes(a) ==
  IF a[1] = 0 THEN <<118, 169, Len(a) - 1>> \o Tail(a) \o <<136, 172>>
  ELSE <<169, Len(a) - 1>> \o Tail(a) \o <<135>>

\* keystore.xpubkey_to_address: (pubkey, address)
xpubkey_to_address(x) ==
  LET pubkey == xpubkey_to_pubkey(x)
  IN [pubkey |-> pubkey, address |-> P2PKH_Address(hash_160(pubkey))]

\* _safe_parse_pubkey: the raw string when the resolution fails
_safe_parse_pubkey(x) == IF xpubkey_resolves(x) THEN xpubkey_to_pubkey(x) ELSE x

\* PrivateKey(sec).sign(pre_hash, None): a DER signature
Sign(k, pre_hash) == <<48, k>> \o pre_hash

\* PublicKey.from_recoverable_signature(rec_sig, pre_hash, None) for the
\* recovery id recid: the signer's key when the signature is over pre_hash
\* and recid is the signature's recovery id, no point on the curve (None)
\* for the ids 2 and 3, and a key nobody holds otherwise.
from_recoverable_signature(der_sig, recid, pre_hash) ==
  IF recid >= 2 THEN None
  ELSE IF SubSeq(der_sig, 3, Len(der_sig)) = pre_hash /\ recid = der_sig[2] % 2
       THEN Pub(der_sig[2])
  ELSE <<3, 200 + recid>>

(***************************************************************************)
(* Script builders                                                          *)
(***************************************************************************)
\* bitcoin.op_push / push_script: the length prefix of a data push
op_push(i) ==
  IF i < 76 THEN <<i>>
  ELSE IF i < 255 THEN <<OP_PUSHDATA1, i>>
  ELSE IF i < 65535 THEN <<OP_PUSHDATA2>> \o LE(i, 2)
  ELSE <<OP_PUSHDATA4>> \o LE(i, 4)

push_script(x) == op_push(Len(x)) \o x

\* bitcoinx.push_item: the minimal push of an item
push_item(item) ==
  IF Len(item) = 0 THEN <<OP_0>>
  ELSE IF Len(item) = 1 /\ item[1] >= 1 /\ item[1] <= 16 THEN <<OP_1 + item[1] - 1>>
  ELSE IF Len(item) = 1 /\ item[1] = 129 THEN <<79>>
  ELSE IF Len(item) < 76 THEN <<Len(item)>> \o item
  ELSE IF Len(item) < 256 THEN <<OP_PUSHDATA1, Len(item)>> \o item
  ELSE IF Len(item) < 65536 THEN <<OP_PUSHDATA2>> \o LE(Len(item), 2) \o item
  ELSE <<OP_PUSHDATA4>> \o LE(Len(item), 4) \o item

\* bitcoinx.push_int for the values a threshold or a key count takes
push_int(v) ==
  IF v = 0 THEN <<OP_0>>
  ELSE IF v >= 1 /\ v <= 16 THEN <<OP_1 + v - 1>>
  ELSE push_item(<<v>>)

\* var_int: the compact-size encoding of bitcoin.var_int
var_int(i) ==
  IF i < 253 THEN <<i>>
  ELSE IF i < 65536 THEN <<253>> \o LE(i, 2)
  ELSE <<254>> \o LE(i, 4)

\* int_to_hex(i, length) of a number given by its little-endian bytes
int_to_hex(n, length) == [k \in 1..length |-> IF k <= Len(n) THEN n[k] ELSE 0]

\* multisig_script(public_keys, threshold): AssertionError unless
\* 1 <= threshold <= len(public_keys)
multisig_script_ok(public_keys, threshold) ==
  1 <= threshold /\ threshold <= Len(public_keys)

multisig_script(public_keys, threshold) ==
  push_int(threshold)
    \o Flatten([k \in 1..Len(public_keys) |-> push_item(public_keys[k])])
    \o push_int(Len(public_keys)) \o <<OP_CHECKMULTISIG>>

(***************************************************************************)
(* Inputs.  A txin dict is a record with every key the code uses; a key     *)
(* the dict does not hold has the value Absent or NoKey.                    *)
(***************************************************************************)
ZeroHash == [k \in 1..32 |-> 0]

\* _parse_redeemScript(s): [err, m, n, x_pubkeys, pubkeys, redeemScript].
\* dec2[0] and dec2[-2] raise IndexError on a script of fewer than two
\* tokens; the bare return of a script that is no m-of-n template makes the
\* caller's tuple assignment raise TypeError; P2MultiSig_Output rejects a
\* threshold outside 1..n.
_parse_redeemScript(s) ==
  With(_script_GetOp(s), LAMBDA dec2 :
    LET bad(e) == [err |-> e, m |-> 0, n |-> 0, x_pubkeys |-> <<>>,
                   pubkeys |-> <<>>, redeemScript |-> <<>>]
    IN IF Len(dec2) < 2 THEN bad("IndexError")
       ELSE LET m == dec2[1].op - OP_1 + 1
                n == dec2[Len(dec2) - 1].op - OP_1 + 1
                op_m == OP_1 + m - 1
                op_n == OP_1 + n - 1
                match_multisig == <<op_m>> \o Repeat(OP_PUSHDATA4, n)
                                    \o <<op_n, OP_CHECKMULTISIG>>
            IN IF ~ _match_decoded(dec2, match_multisig) THEN bad("TypeError")
               ELSE With([k \in 1..(Len(dec2) - 3) |-> _safe_parse_pubkey(dec2[k + 1].vch)],
                         LAMBDA pubkeys :
                      IF ~ multisig_script_ok(pubkeys, m) THEN bad("ValueError")
                      ELSE [err |-> "", m |-> m, n |-> n,
                            x_pubkeys |-> [k \in 1..(Len(dec2) - 3) |-> dec2[k + 1].vch],
                            pubkeys |-> pubkeys,
                            redeemScript |-> multisig_script(pubkeys, m)]))

\* The string "(pubkey)" that stands for the key of a pay-to-pubkey input.
PubkeyPlaceholder == <<40>>

\* _parse_scriptSig(d, _bytes): [err, d], d the dict as the call leaves it.
_parse_scriptSig(d, _bytes) ==
  With(_script_GetOp(_bytes), LAMBDA decoded :
    IF _match_decoded(decoded, <<OP_PUSHDATA4>>)
    THEN [err |-> "",
          d |-> [d EXCEPT !.type = "p2pk",
                          !.signatures = <<decoded[1].vch>>,
                          !.num_sig = 1,
                          !.x_pubkeys = <<PubkeyPlaceholder>>,
                          !.pubkeys = <<PubkeyPlaceholder>>]]
    ELSE IF _match_decoded(decoded, <<OP_PUSHDATA4, OP_PUSHDATA4>>)
    THEN LET sig == decoded[1].vch
             x_pubkey == decoded[2].vch
         IN IF ~ xpubkey_resolves(x_pubkey) THEN [err |-> "", d |-> d]
            ELSE With(xpubkey_to_address(x_pubkey), LAMBDA r :
                   [err |-> "",
                    d |-> [d EXCEPT !.type = "p2pkh",
                                    !.signatures = _parse_sig(<<sig>>),
                                    !.x_pubkeys = <<x_pubkey>>,
                                    !.num_sig = 1,
                                    !.pubkeys = <<r.pubkey>>,
                                    !.address = r.address]])
    ELSE IF ~ _match_decoded(decoded,
                <<OP_0>> \o Repeat(OP_PUSHDATA4, Len(decoded) - 1))
    THEN [err |-> "", d |-> d]
    ELSE LET x_sig == [k \in 1..(Len(decoded) - 2) |-> decoded[k + 1].vch]
         IN With(_parse_redeemScript(decoded[Len(decoded)].vch), LAMBDA r :
              IF r.err # "" THEN [err |-> r.err, d |-> d]
              ELSE [err |-> "",
                    d |-> [d EXCEPT !.type = "p2sh",
                                    !.num_sig = r.m,
                                    !.signatures = _parse_sig(x_sig),
                                    !.x_pubkeys = r.x_pubkeys,
                                    !.pubkeys = r.pubkeys,
                                    !.redeemScript = r.redeemScript,
                                    !.address = P2SH_Address(hash_160(r.redeemScript))]]))

\* [sig for sig in txin['signatures'] if sig]
FilledSigs(signatures) ==
  IF signatures = AbsentList THEN <<>>
  ELSE SelectSeq(signatures, LAMBDA x : Truthy(x))

\* Transaction.is_txin_complete (txin.get('num_sig', 1))
is_txin_complete(txin) ==
  Len(FilledSigs(txin.signatures)) = (IF txin.num_sig = NoKey THEN 1 ELSE txin.num_sig)

\* The dict _parse_input starts from for a non-coinbase input.
EmptyTxin ==
  [type |-> "unknown", prevout_hash |-> ZeroHash, prevout_n |-> <<>>,
   sequence |-> <<>>, scriptSig |-> <<>>, x_pubkeys |-> <<>>, pubkeys |-> <<>>,
   signatures |-> <<>>, num_sig |-> 0, value |-> Absent, address |-> None,
   redeemScript |-> Absent, scriptCode |-> Absent]

\* _parse_input(vds): [err, val (the dict), cur]
_parse_input(input, cursor) ==
  With(read_bytes(input, cursor, 32), LAMBDA h :
  With(read_uint32(input, h.cur), LAMBDA pn :
    IF pn.err # "" THEN Fail(pn.err, pn.cur)
    ELSE
  With(read_compact_size(input, pn.cur), LAMBDA sl :
    IF sl.err # "" THEN Fail(sl.err, sl.cur)
    ELSE
  With(read_bytes(input, sl.cur, sl.val), LAMBDA sc :
  With(read_uint32(input, sc.cur), LAMBDA sq :
    IF sq.err # "" THEN Fail(sq.err, sq.cur)
    ELSE
  With([EmptyTxin EXCEPT !.prevout_hash = Reverse(h.val),
                         !.prevout_n = pn.val,
                         !.sequence = sq.val,
                         !.scriptSig = sc.val], LAMBDA base :
    IF base.prevout_hash = ZeroHash
    THEN Ok([base EXCEPT !.type = "coinbase", !.address = UnknownAddress,
                         !.x_pubkeys = AbsentList, !.pubkeys = AbsentList,
                         !.signatures = AbsentList, !.num_sig = NoKey], sq.cur)
    ELSE
  With(_parse_scriptSig(base, sc.val), LAMBDA p :
    IF p.err # "" THEN Fail(p.err, sq.cur)
    ELSE IF is_txin_complete(p.d) THEN Ok(p.d, sq.cur)
    ELSE
  With(read_uint64(input, sq.cur), LAMBDA v :
    IF v.err # "" THEN Fail(v.err, v.cur)
    ELSE Ok([p.d EXCEPT !.value = v.val], v.cur)))))))))

\* [_parse_input(vds) for i in range(n_vin)]: [err, val (the list), cur]
RECURSIVE ParseInputs(_, _, _)
ParseInputs(input, cursor, n) ==
  IF n = 0 THEN Ok(<<>>, cursor)
  ELSE With(_parse_input(input, cursor), LAMBDA r :
         IF r.err # "" THEN r
         ELSE With(ParseInputs(input, r.cur, n - 1), LAMBDA rest :
                IF rest.err # "" THEN rest
                ELSE Ok(<<r.val>> \o rest.val, rest.cur)))

\* bitcoinx TxOutput.read over vds.read_bytes: an 8-byte value and a
\* length-prefixed script; a short read is an error.
TxOutput_read(input, cursor) ==
  IF cursor + 8 > Len(input) THEN Fail("struct.error", cursor)
  ELSE With(read_compact_size(input, cursor + 8), LAMBDA sl :
         IF sl.err # "" THEN Fail("struct.error", sl.cur)
         ELSE IF sl.cur + sl.val > Len(input) THEN Fail("struct.error", sl.cur)
         ELSE Ok([value |-> Slice(input, cursor, cursor + 8),
                  script_pubkey |-> Slice(input, sl.cur, sl.cur + sl.val)],
                 sl.cur + sl.val))

RECURSIVE ReadOutputs(_, _, _)
ReadOutputs(input, cursor, n) ==
  IF n = 0 THEN Ok(<<>>, cursor)
  ELSE With(TxOutput_read(input, cursor), LAMBDA r :
         IF r.err # "" THEN r
         ELSE With(ReadOutputs(input, r.cur, n - 1), LAMBDA rest :
                IF rest.err # "" THEN rest
                ELSE Ok(<<r.val>> \o rest.val, rest.cur)))

\* bitcoinx.read_list(vds.read_bytes, TxOutput.read)
read_list(input, cursor) ==
  With(read_compact_size(input, cursor), LAMBDA c :
    IF c.err # "" THEN Fail("struct.error", c.cur)
    ELSE ReadOutputs(input, c.cur, c.val))

\* TxOutput.to_bytes
TxOutput_to_bytes(output) ==
  int_to_hex(output.value, 8) \o var_int(Len(output.script_pubkey)) \o output.script_pubkey

\* deserialize(raw) as it would be without the assertion on the number of
\* inputs.
deserialize_AnyCount(raw) ==
  LET bad(e) == [err |-> e, version |-> <<>>, inputs |-> <<>>, outputs |-> <<>>,
                 lockTime |-> <<>>]
  IN
  With(read_int32(raw, 0), LAMBDA ver :
    IF ver.err # "" THEN bad(ver.err)
    ELSE
  With(read_compact_size(raw, ver.cur), LAMBDA n_vin :
    IF n_vin.err # "" THEN bad(n_vin.err)
    ELSE
  With(ParseInputs(raw, n_vin.cur, n_vin.val), LAMBDA ins :
    IF ins.err # "" THEN bad(ins.err)
    ELSE
  With(read_list(raw, ins.cur), LAMBDA outs :
    IF outs.err # "" THEN bad(outs.err)
    ELSE
  With(read_uint32(raw, outs.cur), LAMBDA lt :
    IF lt.err # "" THEN bad(lt.err)
    ELSE [err |-> "", version |-> ver.val, inputs |-> ins.val,
          outputs |-> outs.val, lockTime |-> lt.val])))))

\* deserialize(raw): [err, version, inputs, outputs, lockTime]
deserialize(raw) ==
  LET bad(e) == [err |-> e, version |-> <<>>, inputs |-> <<>>, outputs |-> <<>>,
                 lockTime |-> <<>>]
  IN
  With(read_int32(raw, 0), LAMBDA ver :
    IF ver.err # "" THEN bad(ver.err)
    ELSE
  With(read_compact_size(raw, ver.cur), LAMBDA n_vin :
    IF n_vin.err # "" THEN bad(n_vin.err)
    ELSE IF n_vin.val = 0 THEN bad("AssertionError")
    ELSE
  With(ParseInputs(raw, n_vin.cur, n_vin.val), LAMBDA ins :
    IF ins.err # "" THEN bad(ins.err)
    ELSE
  With(read_list(raw, ins.cur), LAMBDA outs :
    IF outs.err # "" THEN bad(outs.err)
    ELSE
  With(read_uint32(raw, outs.cur), LAMBDA lt :
    IF lt.err # "" THEN bad(lt.err)
    ELSE [err |-> "", version |-> ver.val, inputs |-> ins.val,
          outputs |-> outs.val, lockTime |-> lt.val])))))

(***************************************************************************)
(* Serialization                                                            *)
(***************************************************************************)
\* sorted(zip(pubkeys, x_pubkeys)): insertion of one pair into a sorted list
PairLess(a, b) == LexLess(a[1], b[1]) \/ (a[1] = b[1] /\ LexLess(a[2], b[2]))

RECURSIVE InsertPair(_, _)
InsertPair(p, sorted) ==
  IF sorted = <<>> THEN <<p>>
  ELSE IF PairLess(p, sorted[1]) THEN <<p>> \o sorted
  ELSE <<sorted[1]>> \o InsertPair(p, Tail(sorted))

RECURSIVE SortPairs(_)
SortPairs(ps) == IF ps = <<>> THEN <<>> ELSE InsertPair(ps[1], SortPairs(Tail(ps)))

\* Transaction.get_sorted_pubkeys: the txin as the call leaves it.  When the
\* dict holds no pubkeys they are resolved from x_pubkeys, and both lists are
\* stored sorted by pubkey.
get_sorted_pubkeys(txin) ==
  IF txin.pubkeys # AbsentList THEN txin
  ELSE With(SortPairs([k \in 1..Len(txin.x_pubkeys) |->
                         <<xpubkey_to_pubkey(txin.x_pubkeys[k]), txin.x_pubkeys[k]>>]),
            LAMBDA ps :
              [txin EXCEPT !.pubkeys = [k \in 1..Len(ps) |-> ps[k][1]],
                           !.x_pubkeys = [k \in 1..Len(ps) |-> ps[k][2]]])

\* Transaction.estimate_pubkey_size_from_x_pubkey
estimate_pubkey_size_from_x_pubkey(x_pubkey) ==
  IF Len(x_pubkey) = 0 THEN 33
  ELSE IF x_pubkey[1] \in {2, 3} THEN 33
  ELSE IF x_pubkey[1] = 4 THEN 65
  ELSE IF x_pubkey[1] = 255 THEN 33
  ELSE IF x_pubkey[1] = 254 THEN 65
  ELSE 33

\* Transaction.estimate_pubkey_size_for_txin
estimate_pubkey_size_for_txin(txin) ==
  IF txin.pubkeys # AbsentList /\ Len(txin.pubkeys) > 0
  THEN estimate_pubkey_size_from_x_pubkey(txin.pubkeys[1])
  ELSE IF txin.x_pubkeys # AbsentList /\ Len(txin.x_pubkeys) > 0
  THEN estimate_pubkey_size_from_x_pubkey(txin.x_pubkeys[1])
  ELSE 33

\* txin.get('num_sig', 1)
NumSigOr1(txin) == IF txin.num_sig = NoKey THEN 1 ELSE txin.num_sig

\* A get_siglist that takes an input for complete once it holds num_sig
\* signatures or more.
get_siglist_AtLeast(txin, estimate_size) ==
  IF estimate_size
  THEN [pk_list |-> Repeat(Repeat(0, estimate_pubkey_size_for_txin(txin)),
                           IF txin.x_pubkeys = AbsentList THEN 1
                           ELSE Len(txin.x_pubkeys)),
        sig_list |-> Repeat(Repeat(0, 72), NumSigOr1(txin))]
  ELSE With(txin.signatures, LAMBDA x_signatures :
       With(FilledSigs(x_signatures), LAMBDA signatures :
         IF Len(signatures) >= NumSigOr1(txin)
         THEN [pk_list |-> txin.pubkeys, sig_list |-> signatures]
         ELSE [pk_list |-> txin.x_pubkeys,
               sig_list |-> [k \in 1..Len(x_signatures) |->
                               IF Truthy(x_signatures[k]) THEN x_signatures[k]
                               ELSE NO_SIGNATURE]]))

\* Transaction.get_siglist(txin, estimate_size): [pk_list, sig_list], for a
\* txin get_sorted_pubkeys has been applied to.
get_siglist(txin, estimate_size) ==
  IF estimate_size
  THEN [pk_list |-> Repeat(Repeat(0, estimate_pubkey_size_for_txin(txin)),
                           IF txin.x_pubkeys = AbsentList THEN 1
                           ELSE Len(txin.x_pubkeys)),
        sig_list |-> Repeat(Repeat(0, 72), NumSigOr1(txin))]
  ELSE With(txin.signatures, LAMBDA x_signatures :
       With(FilledSigs(x_signatures), LAMBDA signatures :
         IF Len(signatures) = NumSigOr1(txin)
         THEN [pk_list |-> txin.pubkeys, sig_list |-> signatures]
         ELSE [pk_list |-> txin.x_pubkeys,
               sig_list |-> [k \in 1..Len(x_signatures) |->
                               IF Truthy(x_signatures[k]) THEN x_signatures[k]
                               ELSE NO_SIGNATURE]]))

\* Transaction.input_script(txin, estimate_size)
input_script(txin, estimate_size) ==
  IF txin.type = "coinbase" THEN txin.scriptSig
  ELSE With(get_siglist(txin, estimate_size), LAMBDA sl :
       With(Flatten([k \in 1..Len(sl.sig_list) |-> push_script(sl.sig_list[k])]),
            LAMBDA script :
         IF txin.type = "p2pk" THEN script
         ELSE IF txin.type = "p2sh"
           THEN <<0>> \o script \o push_script(multisig_script(sl.pk_list, txin.num_sig))
         ELSE IF txin.type = "p2pkh" THEN script \o push_script(sl.pk_list[1])
         ELSE IF txin.type = "unknown" THEN txin.scriptSig
         ELSE script))

\* Transaction.serialize_outpoint
serialize_outpoint(txin) == Reverse(txin.prevout_hash) \o int_to_hex(txin.prevout_n, 4)

\* txin.get('sequence', 0xffffffff - 1)
SequenceOf(txin) == IF txin.sequence = Absent THEN <<254, 255, 255, 255>> ELSE txin.sequence

\* Whether serialize_input appends the 8-byte value of the input.
WritesValue(txin, estimate_size) ==
  txin.value # Absent /\ ~ (estimate_size \/ is_txin_complete(txin))

\* Transaction.serialize_input(txin, script, estimate_size)
serialize_input(txin, script, estimate_size) ==
  serialize_outpoint(txin) \o var_int(Len(script)) \o script
    \o int_to_hex(SequenceOf(txin), 4)
    \o (IF WritesValue(txin, estimate_size) THEN int_to_hex(txin.value, 8) ELSE <<>>)

\* The inputs as a serialize(estimate_size=False) leaves them: input_script
\* runs get_sorted_pubkeys on every input that is no coinbase.
SortedInputs(inputs) ==
  [k \in 1..Len(inputs) |->
     IF inputs[k].type = "coinbase" THEN inputs[k] ELSE get_sorted_pubkeys(inputs[k])]

\* Transaction.serialize(estimate_size) of a transaction whose inputs and
\* outputs are at hand.
SerializeTx(version, inputs, outputs, locktime, estimate_size) ==
  With(IF estimate_size THEN inputs ELSE SortedInputs(inputs), LAMBDA ins :
    int_to_hex(version, 4)
      \o var_int(Len(ins))
      \o Flatten([k \in 1..Len(ins) |->
                    serialize_input(ins[k], input_script(ins[k], estimate_size),
                                    estimate_size)])
      \o var_int(Len(outputs))
      \o Flatten([k \in 1..Len(outputs) |-> TxOutput_to_bytes(outputs[k])])
      \o int_to_hex(locktime, 4))

(***************************************************************************)
(* The Transaction object.  A Transaction is the record T of its fields:    *)
(* raw, ins (_inputs), outs (_outputs), locktime, version.  _inputs and     *)
(* _outputs are None or a list: [none |-> TRUE] or [none |-> FALSE, list].  *)
(* A method is an operator from T to [err, T, val]: the exception raised    *)
(* ("" for none), the object as the call leaves it, and the value returned. *)
(***************************************************************************)
NoList == [none |-> TRUE, list |-> <<>>]
SomeList(l) == [none |-> FALSE, list |-> l]

Ret(e, T, v) == [err |-> e, T |-> T, val |-> v]

True == <<1>>
False == <<0>>
Bool(b) == IF b THEN True ELSE False

\* Transaction.deserialize() as it would be without the return for inputs
\* that are already there.
deserialize_Again(T) ==
  IF T.raw = None THEN Ret("", T, None)
  ELSE With(deserialize(T.raw), LAMBDA d :
         IF d.err # "" THEN Ret(d.err, T, None)
         ELSE Ret("", [T EXCEPT !.ins = SomeList(d.inputs),
                                !.outs = SomeList(d.outputs),
                                !.locktime = d.lockTime,
                                !.version = d.version], None))

\* Transaction.deserialize(): nothing to do without a raw or with inputs
\* already there; an exception of deserialize(raw) leaves the fields alone.
Transaction_deserialize(T) ==
  IF T.raw = None THEN Ret("", T, None)
  ELSE IF ~ T.ins.none THEN Ret("", T, None)
  ELSE With(deserialize(T.raw), LAMBDA d :
         IF d.err # "" THEN Ret(d.err, T, None)
         ELSE Ret("", [T EXCEPT !.ins = SomeList(d.inputs),
                                !.outs = SomeList(d.outputs),
                                !.locktime = d.lockTime,
                                !.version = d.version], None))

\* Transaction.inputs(): the value returned is T.ins of the result
Transaction_inputs(T) ==
  IF T.ins.none THEN Transaction_deserialize(T) ELSE Ret("", T, None)

\* Transaction.outputs()
Transaction_outputs(T) ==
  IF T.outs.none THEN Transaction_deserialize(T) ELSE Ret("", T, None)

\* inputs() followed by outputs(), as serialize and serialize_preimage call
\* them; iterating a None list raises TypeError.
InputsAndOutputs(T) ==
  With(Transaction_inputs(T), LAMBDA a :
    IF a.err # "" THEN a
    ELSE With(Transaction_outputs(a.T), LAMBDA b :
           IF b.err # "" THEN b
           ELSE IF b.T.ins.none \/ b.T.outs.none THEN Ret("TypeError", b.T, None)
           ELSE b))

\* Transaction.update(raw)
Transaction_update(T, r) ==
  Transaction_deserialize([T EXCEPT !.raw = r, !.ins = NoList])

\* The exception serialize raises at an input whose script is the stored
\* scriptSig (coinbase, unknown): KeyError when the dict holds none, TypeError
\* (len of None in serialize_input) when it has been set to None.
StoredScriptError(txin) ==
  IF txin.type \notin { "coinbase", "unknown" } THEN ""
  ELSE IF txin.scriptSig = Absent THEN "KeyError"
  ELSE IF txin.scriptSig = None THEN "TypeError"
  ELSE ""

\* Transaction.serialize(estimate_size)
Transaction_serialize(T, estimate_size) ==
  With(InputsAndOutputs(T), LAMBDA a :
    IF a.err # "" THEN a
    ELSE With({ k \in 1..Len(a.T.ins.list) : StoredScriptError(a.T.ins.list[k]) # "" },
              LAMBDA bad :
      IF bad # {}
      THEN With(CHOOSE k \in bad : \A j \in bad : k <= j, LAMBDA first :
             Ret(StoredScriptError(a.T.ins.list[first]),
                 [a.T EXCEPT !.ins = SomeList(
                    [k \in 1..Len(a.T.ins.list) |->
                       IF estimate_size \/ k >= first THEN a.T.ins.list[k]
                       ELSE SortedInputs(a.T.ins.list)[k]])],
                 None))
      ELSE Ret("", [a.T EXCEPT !.ins = SomeList(IF estimate_size THEN a.T.ins.list
                                                ELSE SortedInputs(a.T.ins.list))],
               SerializeTx(a.T.version, a.T.ins.list, a.T.outs.list, a.T.locktime,
                           estimate_size))))

\* Transaction.__str__
Transaction_str(T) ==
  IF T.raw = None
  THEN With(Transaction_serialize(T, FALSE), LAMBDA r :
         IF r.err # "" THEN r ELSE Ret("", [r.T EXCEPT !.raw = r.val], r.val))
  ELSE Ret("", T, T.raw)

\* Transaction.signature_count over a list of inputs: <<s, r>>
RECURSIVE CountSigs(_)
CountSigs(ins) ==
  IF ins = <<>> THEN <<0, 0>>
  ELSE With(CountSigs(Tail(ins)), LAMBDA rest :
         IF ins[1].type = "coinbase" THEN rest
         ELSE <<rest[1] + Len(FilledSigs(ins[1].signatures)),
                rest[2] + (IF ins[1].num_sig = NoKey THEN -1 ELSE ins[1].num_sig)>>)

\* Transaction.is_complete over a list of inputs: r == s
IsCompleteList(ins) == With(CountSigs(ins), LAMBDA sr : sr[2] = sr[1])

\* Transaction.is_complete()
Transaction_is_complete(T) ==
  With(Transaction_inputs(T), LAMBDA a :
    IF a.err # "" THEN a
    ELSE IF a.T.ins.none THEN Ret("TypeError", a.T, None)
    ELSE Ret("", a.T, Bool(IsCompleteList(a.T.ins.list))))

\* Transaction.is_final over a list of inputs
IsFinalList(ins) ==
  ~ \E k \in 1..Len(ins) : NumLess(SequenceOf(ins[k]), <<254, 255, 255, 255>>)

\* Transaction.as_dict(): val is <<hex, complete, final>>
Transaction_as_dict(T) ==
  With(Transaction_str(T), LAMBDA r :
    IF r.err # "" THEN r
    ELSE
  With(Transaction_deserialize(r.T), LAMBDA d :
    IF d.err # "" THEN d
    ELSE
  With(Transaction_is_complete(d.T), LAMBDA c :
    IF c.err # "" THEN c
    ELSE Ret("", c.T, <<c.T.raw, c.val, Bool(IsFinalList(c.T.ins.list))>>))))

\* txid as it would be without the test of completeness.
txid_OfAnyTransaction(T) ==
  With(Transaction_is_complete(T), LAMBDA c :
    IF c.err # "" THEN c
    ELSE With(Transaction_serialize(c.T, FALSE), LAMBDA r :
           IF r.err # "" THEN r ELSE Ret("", r.T, Reverse(sha256d(r.val)))))

\* Transaction.txid(): None for an incomplete transaction
Transaction_txid(T) ==
  With(Transaction_is_complete(T), LAMBDA c :
    IF c.err # "" THEN c
    ELSE IF c.val = False THEN Ret("", c.T, None)
    ELSE With(Transaction_serialize(c.T, FALSE), LAMBDA r :
           IF r.err # "" THEN r ELSE Ret("", r.T, Reverse(sha256d(r.val)))))

\* Transaction.add_inputs(inputs): extend of None raises AttributeError
Transaction_add_inputs(T, inputs) ==
  IF T.ins.none THEN Ret("AttributeError", T, None)
  ELSE Ret("", [T EXCEPT !.ins = SomeList(T.ins.list \o inputs), !.raw = None], None)

\* Transaction.add_outputs(outputs)
Transaction_add_outputs(T, outputs) ==
  IF T.outs.none THEN Ret("AttributeError", T, None)
  ELSE Ret("", [T EXCEPT !.outs = SomeList(T.outs.list \o outputs), !.raw = None], None)

\* Transaction.input_value / output_value / get_fee: x['value'] of an input
\* without a value raises KeyError.
Transaction_get_fee(T) ==
  With(Transaction_inputs(T), LAMBDA a :
    IF a.err # "" THEN a
    ELSE IF a.T.ins.none THEN Ret("TypeError", a.T, None)
    ELSE IF \E k \in 1..Len(a.T.ins.list) : a.T.ins.list[k].value = Absent
      THEN Ret("KeyError", a.T, None)
    ELSE With(Transaction_outputs(a.T), LAMBDA b :
           IF b.err # "" THEN b
           ELSE IF b.T.outs.none THEN Ret("TypeError", b.T, None)
           ELSE Ret("", b.T,
                    <<SumSeq([k \in 1..Len(b.T.ins.list) |->
                                IntOf(b.T.ins.list[k].value)])
                      - SumSeq([k \in 1..Len(b.T.outs.list) |->
                                  IntOf(b.T.outs.list[k].value)])>>)))

(***************************************************************************)
(* Signature-hash preimage                                                  *)
(***************************************************************************)
\* Transaction.nHashType(): 0x01 | (SIGHASH_FORKID + (FORKID << 8))
nHashType == 65

\* Transaction.get_preimage_script(txin): [err, val].  The key of a parsed
\* pay-to-pubkey input is the string "(pubkey)", which from_hex rejects;
\* an unknown input has a scriptCode only when the caller supplied one.
get_preimage_script(txin) ==
  IF txin.type = "p2pkh"
    THEN (IF txin.address \in {None, UnknownAddress}
          THEN [err |-> "AttributeError", val |-> <<>>]
          ELSE [err |-> "", val |-> address_to_script_bytes(txin.address)])
  ELSE IF txin.type = "p2sh"
    THEN With(get_sorted_pubkeys(txin), LAMBDA t :
           IF txin.num_sig = NoKey THEN [err |-> "KeyError", val |-> <<>>]
           ELSE IF ~ multisig_script_ok(t.pubkeys, t.num_sig)
             THEN [err |-> "AssertionError", val |-> <<>>]
           ELSE [err |-> "", val |-> multisig_script(t.pubkeys, t.num_sig)])
  ELSE IF txin.type = "p2pk"
    THEN (IF txin.pubkeys = AbsentList THEN [err |-> "KeyError", val |-> <<>>]
          ELSE IF txin.pubkeys = <<>> THEN [err |-> "IndexError", val |-> <<>>]
          ELSE IF txin.pubkeys[1] = PubkeyPlaceholder \/ ~ xpubkey_resolves(txin.pubkeys[1])
            THEN [err |-> "ValueError", val |-> <<>>]
          ELSE [err |-> "", val |-> push_item(txin.pubkeys[1]) \o <<172>>])
  ELSE IF txin.type = "unknown"
    THEN (IF txin.scriptCode = Absent THEN [err |-> "KeyError", val |-> <<>>]
          ELSE [err |-> "", val |-> txin.scriptCode])
  ELSE [err |-> "RuntimeError", val |-> <<>>]

\* The txin as get_preimage_script leaves it (get_sorted_pubkeys of p2sh).
AfterPreimageScript(txin) ==
  IF txin.type = "p2sh" THEN get_sorted_pubkeys(txin) ELSE txin

\* serialize_preimage as it would be with the value of the input looked up
\* before its preimage script is built.
PreimageOf_ValueFirst(version, inputs, outputs, locktime, i) ==
  LET txin == inputs[i]
      hashPrevouts == sha256d(Flatten([k \in 1..Len(inputs) |->
                                         serialize_outpoint(inputs[k])]))
      hashSequence == sha256d(Flatten([k \in 1..Len(inputs) |->
                                         int_to_hex(SequenceOf(inputs[k]), 4)]))
      hashOutputs == sha256d(Flatten([k \in 1..Len(outputs) |->
                                        TxOutput_to_bytes(outputs[k])]))
  IN IF txin.value = Absent THEN [err |-> "InputValueMissing", val |-> <<>>]
     ELSE With(get_preimage_script(txin), LAMBDA ps :
       IF ps.err # "" THEN ps
       ELSE [err |-> "",
             val |-> int_to_hex(version, 4) \o hashPrevouts \o hashSequence
                       \o serialize_outpoint(txin)
                       \o var_int(Len(ps.val)) \o ps.val
                       \o int_to_hex(txin.value, 8)
                       \o int_to_hex(SequenceOf(txin), 4)
                       \o hashOutputs \o int_to_hex(locktime, 4)
                       \o <<nHashType, 0, 0, 0>>])

\* serialize_preimage as it would be with the hashes of the outpoint and of
\* the sequence number of input i alone.
PreimageOf_OwnInputHashed(version, inputs, outputs, locktime, i) ==
  LET txin == inputs[i]
      hashPrevouts == sha256d(serialize_outpoint(txin))
      hashSequence == sha256d(int_to_hex(SequenceOf(txin), 4))
      hashOutputs == sha256d(Flatten([k \in 1..Len(outputs) |->
                                        TxOutput_to_bytes(outputs[k])]))
  IN With(get_preimage_script(txin), LAMBDA ps :
       IF ps.err # "" THEN ps
       ELSE IF txin.value = Absent THEN [err |-> "InputValueMissing", val |-> <<>>]
       ELSE [err |-> "",
             val |-> int_to_hex(version, 4) \o hashPrevouts \o hashSequence
                       \o serialize_outpoint(txin)
                       \o var_int(Len(ps.val)) \o ps.val
                       \o int_to_hex(txin.value, 8)
                       \o int_to_hex(SequenceOf(txin), 4)
                       \o hashOutputs \o int_to_hex(locktime, 4)
                       \o <<nHashType, 0, 0, 0>>])

\* The preimage of input i of a transaction whose inputs and outputs are at
\* hand: [err, val]
PreimageOf(version, inputs, outputs, locktime, i) ==
  LET txin == inputs[i]
      hashPrevouts == sha256d(Flatten([k \in 1..Len(inputs) |->
                                         serialize_outpoint(inputs[k])]))
      hashSequence == sha256d(Flatten([k \in 1..Len(inputs) |->
                                         int_to_hex(SequenceOf(inputs[k]), 4)]))
      hashOutputs == sha256d(Flatten([k \in 1..Len(outputs) |->
                                        TxOutput_to_bytes(outputs[k])]))
  IN With(get_preimage_script(txin), LAMBDA ps :
       IF ps.err # "" THEN ps
       ELSE IF txin.value = Absent THEN [err |-> "InputValueMissing", val |-> <<>>]
       ELSE [err |-> "",
             val |-> int_to_hex(version, 4) \o hashPrevouts \o hashSequence
                       \o serialize_outpoint(txin)
                       \o var_int(Len(ps.val)) \o ps.val
                       \o int_to_hex(txin.value, 8)
                       \o int_to_hex(SequenceOf(txin), 4)
                       \o hashOutputs \o int_to_hex(locktime, 4)
                       \o <<nHashType, 0, 0, 0>>])

\* Transaction.serialize_preimage(i)
Transaction_serialize_preimage(T, i) ==
  With(InputsAndOutputs(T), LAMBDA a :
    IF a.err # "" THEN a
    ELSE With(PreimageOf(a.T.version, a.T.ins.list, a.T.outs.list, a.T.locktime, i),
              LAMBDA p :
                Ret(p.err, [a.T EXCEPT !.ins.list[i] = AfterPreimageScript(@)], p.val)))

\* Transaction.preimage_hash(txin_index)
Transaction_preimage_hash(T, i) ==
  With(Transaction_serialize_preimage(T, i), LAMBDA p :
    IF p.err # "" THEN p ELSE Ret("", p.T, sha256d(p.val)))

\* Transaction.sign_txin(txin_index, privkey_bytes): the signature with the
\* sighash byte appended
Transaction_sign_txin(T, i, sec) ==
  With(Transaction_preimage_hash(T, i), LAMBDA h :
    IF h.err # "" THEN h ELSE Ret("", h.T, Sign(sec, h.val) \o <<nHashType % 256>>))

(***************************************************************************)
(* Signing                                                                  *)
(***************************************************************************)
\* Transaction.get_siglist(txin) of input i of the transaction, with the
\* sorting of the keys it leaves in the dict: [err, T, val], val the pair
\* (pk_list, sig_list).
Transaction_get_siglist(T, i) ==
  LET txin == T.ins.list[i]
  IN IF txin.x_pubkeys = AbsentList THEN Ret("KeyError", T, None)
     ELSE With([T EXCEPT !.ins.list[i] = get_sorted_pubkeys(@)], LAMBDA T1 :
            IF txin.signatures = AbsentList THEN Ret("KeyError", T1, None)
            ELSE With(get_siglist(T1.ins.list[i], FALSE), LAMBDA sl :
                   Ret("", T1, <<sl.pk_list, sl.sig_list>>)))

\* Transaction.input_script(txin) of input i of the transaction, with the
\* sorting of the keys it leaves in the dict: [err, T, val], val the script
\* (None when the stored scriptSig is None).
Transaction_input_script(T, i) ==
  LET txin == T.ins.list[i]
  IN IF txin.type = "coinbase"
     THEN (IF txin.scriptSig = Absent THEN Ret("KeyError", T, None)
           ELSE Ret("", T, txin.scriptSig))
     ELSE With(Transaction_get_siglist(T, i), LAMBDA g :
            IF g.err # "" THEN g
            ELSE IF txin.type = "p2pkh" /\ Len(g.val[1]) = 0
              THEN Ret("IndexError", g.T, None)
            ELSE IF txin.type = "unknown" /\ txin.scriptSig = Absent
              THEN Ret("KeyError", g.T, None)
            ELSE Ret("", g.T, input_script(g.T.ins.list[i], FALSE)))

\* Transaction.add_signature_to_txin(i, signingPos, sig), i and signingPos
\* counted from 1: a position outside the list raises IndexError.
Transaction_add_signature_to_txin(T, i, signingPos, sig) ==
  IF T.ins.none THEN Ret("TypeError", T, None)
  ELSE IF i > Len(T.ins.list) THEN Ret("IndexError", T, None)
  ELSE LET txin == T.ins.list[i]
       IN IF txin.signatures = AbsentList THEN Ret("KeyError", T, None)
          ELSE IF signingPos > Len(txin.signatures) THEN Ret("IndexError", T, None)
          ELSE Ret("", [T EXCEPT !.ins.list[i].signatures[signingPos] = sig,
                                 !.ins.list[i].scriptSig = None,
                                 !.raw = None], None)

\* The inner loop of sign for input i from slot j on (x_pubkeys being the
\* list the loop enumerates): [err, T]
RECURSIVE SignSlots(_, _, _, _, _)
SignSlots(T, i, j, x_pubkeys, keypairs) ==
  LET txin == T.ins.list[i]
  IN IF j > Len(x_pubkeys) THEN Ret("", T, None)
     ELSE IF Len(FilledSigs(txin.signatures)) = txin.num_sig THEN Ret("", T, None)
     ELSE IF x_pubkeys[j] \notin keypairs
       THEN SignSlots(T, i, j + 1, x_pubkeys, keypairs)
     ELSE With(Transaction_sign_txin(T, i, KeyOf(x_pubkeys[j])), LAMBDA g :
            IF g.err # "" THEN Ret(g.err, g.T, None)
            ELSE IF j > Len(txin.signatures) THEN Ret("IndexError", g.T, None)
            ELSE IF j > Len(txin.pubkeys)
              THEN Ret("IndexError",
                       [g.T EXCEPT !.ins.list[i].signatures[j] = g.val], None)
            ELSE SignSlots([g.T EXCEPT !.ins.list[i].signatures[j] = g.val,
                                       !.ins.list[i].pubkeys[j] = Pub(KeyOf(x_pubkeys[j]))],
                           i, j + 1, x_pubkeys, keypairs))

\* The outer loop of sign from input i on: [err, T]
RECURSIVE SignInputs(_, _, _)
SignInputs(T, i, keypairs) ==
  IF i > Len(T.ins.list) THEN Ret("", T, None)
  ELSE IF T.ins.list[i].num_sig = NoKey THEN Ret("KeyError", T, None)
  ELSE IF T.ins.list[i].x_pubkeys = AbsentList THEN Ret("KeyError", T, None)
  ELSE With([T EXCEPT !.ins.list[i] = get_sorted_pubkeys(@)], LAMBDA T1 :
       With(SignSlots(T1, i, 1, T1.ins.list[i].x_pubkeys, keypairs), LAMBDA r :
         IF r.err # "" THEN r ELSE SignInputs(r.T, i + 1, keypairs)))

\* Transaction.sign(keypairs): keypairs is the set of the x_pubkeys the
\* caller holds the private key of.
Transaction_sign(T, keypairs) ==
  With(Transaction_inputs(T), LAMBDA a :
    IF a.err # "" THEN a
    ELSE IF a.T.ins.none THEN Ret("TypeError", a.T, None)
    ELSE With(SignInputs(a.T, 1, keypairs), LAMBDA r :
           IF r.err # "" THEN r
           ELSE With(Transaction_serialize(r.T, FALSE), LAMBDA z :
                  IF z.err # "" THEN z
                  ELSE Ret("", [z.T EXCEPT !.raw = z.val], None))))

\* The index of the first occurrence of x in the list l (0 when absent)
RECURSIVE IndexOf(_, _, _)
IndexOf(l, x, k) ==
  IF k > Len(l) THEN 0 ELSE IF l[k] = x THEN k ELSE IndexOf(l, x, k + 1)

\* A recovery loop that takes the first slot when no recovered key is one of
\* pubkeys.
RecoverSlot_ElseFirst(der_sig, pre_hash, pubkeys, recid) ==
  IF \E j \in 1..Len(pubkeys), r \in 0..3 :
       from_recoverable_signature(der_sig, r, pre_hash) = pubkeys[j]
  THEN CHOOSE j \in 1..Len(pubkeys) :
         /\ \E r \in 0..3 : from_recoverable_signature(der_sig, r, pre_hash) = pubkeys[j]
         /\ \A k \in 1..(j - 1) : pubkeys[k] # pubkeys[j]
  ELSE IF Len(pubkeys) > 0 THEN 1 ELSE 0

\* The recovery loop of update_signatures for input i: the slot a signature
\* goes to (0 when no recovered key is one of pubkeys).
RECURSIVE RecoverSlot(_, _, _, _)
RecoverSlot(der_sig, pre_hash, pubkeys, recid) ==
  IF recid >= 4 THEN 0
  ELSE With(from_recoverable_signature(der_sig, recid, pre_hash), LAMBDA public_key :
         IF public_key = None THEN RecoverSlot(der_sig, pre_hash, pubkeys, recid + 1)
         ELSE With(IndexOf(pubkeys, public_key, 1), LAMBDA j :
                IF j # 0 THEN j
                ELSE RecoverSlot(der_sig, pre_hash, pubkeys, recid + 1)))

\* The loop of update_signatures from input i on: [err, T]
RECURSIVE UpdateInputs(_, _, _)
UpdateInputs(T, i, signatures) ==
  IF i > Len(T.ins.list) THEN Ret("", T, None)
  ELSE IF T.ins.list[i].x_pubkeys = AbsentList THEN Ret("KeyError", T, None)
  ELSE With([T EXCEPT !.ins.list[i] = get_sorted_pubkeys(@)], LAMBDA T1 :
       LET txin == T1.ins.list[i]
           sig == signatures[i] \o <<nHashType % 256>>
       IN IF \E k \in 1..Len(txin.signatures) : txin.signatures[k] = sig
          THEN UpdateInputs(T1, i + 1, signatures)
          ELSE With(Transaction_preimage_hash(T1, i), LAMBDA h :
                 IF h.err # "" THEN Ret(h.err, h.T, None)
                 ELSE With(RecoverSlot(signatures[i], h.val, txin.pubkeys, 0), LAMBDA j :
                        IF j = 0 THEN UpdateInputs(h.T, i + 1, signatures)
                        ELSE With(Transaction_add_signature_to_txin(h.T, i, j, sig),
                                  LAMBDA w :
                                    IF w.err # "" THEN w
                                    ELSE UpdateInputs(w.T, i + 1, signatures)))))

\* update_signatures as it would be with the count of the signatures
\* compared before the completeness of the transaction is asked.
update_signatures_CountFirst(T, signatures) ==
  With(Transaction_inputs(T), LAMBDA a :
    IF a.err # "" THEN a
    ELSE IF a.T.ins.none THEN Ret("TypeError", a.T, None)
    ELSE IF Len(a.T.ins.list) # Len(signatures) THEN Ret("RuntimeError", a.T, None)
    ELSE IF IsCompleteList(a.T.ins.list) THEN Ret("", a.T, None)
    ELSE With(UpdateInputs(a.T, 1, signatures), LAMBDA r :
           IF r.err # "" THEN r
           ELSE With(Transaction_serialize(r.T, FALSE), LAMBDA z :
                  IF z.err # "" THEN z
                  ELSE Ret("", [z.T EXCEPT !.raw = z.val], None))))

\* update_signatures as it would be without the early return of a complete
\* transaction.
update_signatures_NoEarlyReturn(T, signatures) ==
  With(Transaction_inputs(T), LAMBDA a :
    IF a.err # "" THEN a
    ELSE IF a.T.ins.none THEN Ret("TypeError", a.T, None)
    ELSE IF Len(a.T.ins.list) # Len(signatures) THEN Ret("RuntimeError", a.T, None)
    ELSE With(UpdateInputs(a.T, 1, signatures), LAMBDA r :
           IF r.err # "" THEN r
           ELSE With(Transaction_serialize(r.T, FALSE), LAMBDA z :
                  IF z.err # "" THEN z
                  ELSE Ret("", [z.T EXCEPT !.raw = z.val], None))))

\* Transaction.update_signatures(signatures)
Transaction_update_signatures(T, signatures) ==
  With(Transaction_is_complete(T), LAMBDA c :
    IF c.err # "" THEN c
    ELSE IF c.val = True THEN Ret("", c.T, None)
    ELSE IF Len(c.T.ins.list) # Len(signatures) THEN Ret("RuntimeError", c.T, None)
    ELSE With(UpdateInputs(c.T, 1, signatures), LAMBDA r :
           IF r.err # "" THEN r
           ELSE With(Transaction_serialize(r.T, FALSE), LAMBDA z :
                  IF z.err # "" THEN z
                  ELSE Ret("", [z.T EXCEPT !.raw = z.val], None))))

(***************************************************************************)
(* BIP_LI01_sort                                                            *)
(***************************************************************************)
\* The sort key of an input, (prevout_hash, prevout_n), and of an output,
\* (value, script_pubkey)
InputKeyLess(a, b) ==
  \/ LexLess(a.prevout_hash, b.prevout_hash)
  \/ (a.prevout_hash = b.prevout_hash /\ NumLess(a.prevout_n, b.prevout_n))

OutputKeyLess(a, b) ==
  \/ NumLess(a.value, b.value)
  \/ (a.value = b.value /\ LexLess(a.script_pubkey, b.script_pubkey))

\* The order of the sort key of the list named by what ("inputs", "outputs")
KeyLess(what, a, b) ==
  IF what = "inputs" THEN InputKeyLess(a, b) ELSE OutputKeyLess(a, b)

\* list.sort (stable): insertion after the elements that are not greater
RECURSIVE InsertBy(_, _, _)
InsertBy(what, x, sorted) ==
  IF sorted = <<>> THEN <<x>>
  ELSE IF KeyLess(what, x, sorted[1]) THEN <<x>> \o sorted
  ELSE <<sorted[1]>> \o InsertBy(what, x, Tail(sorted))

RECURSIVE SortBy(_, _)
SortBy(what, l) ==
  IF l = <<>> THEN <<>>
  ELSE InsertBy(what, l[Len(l)], SortBy(what, SubSeq(l, 1, Len(l) - 1)))

\* Transaction.BIP_LI01_sort(): raw is left as it is
Transaction_BIP_LI01_sort(T) ==
  IF T.ins.none \/ T.outs.none THEN Ret("AttributeError", T, None)
  ELSE Ret("", [T EXCEPT !.ins = SomeList(SortBy("inputs", T.ins.list)),
                         !.outs = SomeList(SortBy("outputs", T.outs.list))], None)

(***************************************************************************)
(* The inputs, outputs and raw transactions the callers of the model hand   *)
(* to the Transaction.                                                      *)
(***************************************************************************)
\* The caps on the lists add_inputs and add_outputs extend.
MaxInputs == 2
MaxOutputs == 2

\* The private keys there are.
Keys == {1, 2}

PrevHash(b) == [k \in 1..32 |-> b]

\* A wallet's input dict before signing: no pubkeys, every slot None.
WalletTxin(type, b, x_pubkeys, num_sig, value, address) ==
  [type |-> type, prevout_hash |-> PrevHash(b), prevout_n |-> LE(0, 4),
   sequence |-> Absent, scriptSig |-> Absent, x_pubkeys |-> x_pubkeys,
   pubkeys |-> AbsentList, signatures |-> [k \in 1..Len(x_pubkeys) |-> None],
   num_sig |-> num_sig, value |-> value, address |-> address,
   redeemScript |-> Absent, scriptCode |-> Absent]

P2pkhTxin(b, k, value) ==
  WalletTxin("p2pkh", b, <<XPub(k)>>, 1, value, P2PKH_Address(hash_160(Pub(k))))

P2shTxin(b, m, value) ==
  WalletTxin("p2sh", b, <<XPub(2), XPub(1)>>, m, value,
             P2SH_Address(hash_160(multisig_script(<<Pub(1), Pub(2)>>, m))))

P2pkTxin(b, k, value) ==
  [WalletTxin("p2pk", b, <<Pub(k)>>, 1, value, None) EXCEPT !.pubkeys = <<Pub(k)>>]

UnknownTxin(b, script) ==
  [EmptyTxin EXCEPT !.prevout_hash = PrevHash(b), !.prevout_n = LE(0, 4),
                    !.sequence = LE(0, 4), !.scriptSig = script]

CoinbaseTxin ==
  [type |-> "coinbase", prevout_hash |-> ZeroHash, prevout_n |-> <<255, 255, 255, 255>>,
   sequence |-> <<255, 255, 255, 255>>, scriptSig |-> <<3, 1, 2, 3>>,
   x_pubkeys |-> AbsentList, pubkeys |-> AbsentList, signatures |-> AbsentList,
   num_sig |-> NoKey, value |-> Absent, address |-> UnknownAddress,
   redeemScript |-> Absent, scriptCode |-> Absent]

\* A signature nobody's key made, without and with the sighash byte.
JunkSig == <<48, 9, 1, 1>>
ForeignSig(b) == <<48, 9, b, b, nHashType % 256>>

\* A 1-of-2 input both slots of which hold a signature.
OverSignedTxin ==
  [P2shTxin(1, 1, LE(1000, 8)) EXCEPT !.signatures = <<ForeignSig(1), ForeignSig(2)>>]

\* The scripts of the inputs no template matches, or only OP_0 matches.
UnknownScripts == { <<172>>, <<0>>, <<0, 2, 81, 81>>, <<76, 0>>, <<76, 1, 7>> }

\* The input lists from_io is called with.
InputLists ==
  { <<P2pkhTxin(2, 1, LE(1000, 8))>>,
    <<P2pkhTxin(2, 1, LE(1000, 8)), P2pkhTxin(1, 2, Absent)>>,
    <<P2shTxin(2, 1, LE(1000, 8)), P2pkhTxin(1, 2, LE(500, 8))>>,
    <<P2shTxin(1, 2, LE(2000, 8))>>,
    <<P2pkTxin(1, 1, LE(1000, 8))>>,
    <<CoinbaseTxin, P2pkhTxin(2, 1, LE(1000, 8))>> }

\* The inputs add_inputs is called with.
TxinDomain == { P2pkhTxin(1, 2, Absent) }

Output1 ==
  [value |-> LE(900, 8),
   script_pubkey |-> address_to_script_bytes(P2PKH_Address(hash_160(Pub(1))))]
Output2 == [value |-> LE(100, 8), script_pubkey |-> <<106>>]

\* The outputs add_outputs is called with.
OutputDomain == { Output2 }

\* The raw transactions a Transaction is constructed from or updated with:
\* serializations of this codec, one of them cut short, and a transaction
\* that declares no input.
RawOf(ins) == SerializeTx(LE(1, 4), ins, <<Output1>>, LE(0, 4), FALSE)

GoodRaws ==
  { RawOf(ins) :
      ins \in InputLists
                \cup { <<OverSignedTxin, P2pkhTxin(2, 1, LE(1000, 8))>> }
                \cup { <<UnknownTxin(1, sc)>> : sc \in UnknownScripts } }

CutRaw == LET r == CHOOSE x \in GoodRaws : Len(x) > 80 IN SubSeq(r, 1, Len(r) - 6)

ZeroInputRaw == LE(1, 4) \o <<0>> \o <<0>> \o LE(0, 4)

RawDomain == GoodRaws \cup { CutRaw, ZeroInputRaw }

\* The raw transactions update is called with.
UpdateRaws ==
  { SerializeTx(LE(1, 4), <<P2pkhTxin(2, 1, LE(1000, 8))>>, <<Output2>>, LE(7, 4), FALSE),
    CutRaw, ZeroInputRaw }

\* The input lists and raw transactions of the whole life cycle.
LifeLists ==
  { <<P2pkhTxin(2, 1, LE(1000, 8))>>,
    <<P2pkhTxin(2, 1, LE(1000, 8)), P2pkhTxin(1, 2, Absent)>> }

LifeRaws ==
  { SerializeTx(LE(1, 4), <<P2pkhTxin(2, 1, LE(1000, 8))>>, <<Output1>>, LE(0, 4), FALSE),
    CutRaw, ZeroInputRaw }

(***************************************************************************)
(* State: the fields of one Transaction and what its last call did, and    *)
(* the fields of one _BCDataStream and what its last call did; the         *)
(* lockfile of a config path and the processes that call get_fd_or_server  *)
(* for it; the credentials of one AiohttpServer and what its authenticate  *)
(* middleware did with the last request.                                   *)
(***************************************************************************)
VARIABLES
  raw,         \* self.raw: the cached serialization, or None
  _inputs,     \* self._inputs: NoList or SomeList(the txin dicts)
  _outputs,    \* self._outputs: NoList or SomeList(the outputs)
  locktime,    \* self.locktime
  version,     \* self.version
  op,          \* the method called last, with its arguments
  err,         \* the exception it raised, "" for none
  ret,         \* the value it returned
  input,       \* _BCDataStream.input: the buffer, or None
  read_cursor, \* _BCDataStream.read_cursor
  sop,         \* the stream method called last, with its arguments
  serr,        \* the exception it raised, "" for none
  sret,        \* the value it returned
  lockfile,    \* the file at get_lockfile(config): NoFile, or the process that created it
  written,     \* written[p]: init_server of p has written its address and time to its file
  recent,      \* recent[p]: the create_time p wrote is less than a second old
  listening,   \* listening[p]: the RPC server of p answers ping
  pc,          \* pc[p]: where process p is in get_fd_or_server / get_server / Daemon
  address,     \* address[p]: the process whose address p has read from the lockfile
  username,    \* AiohttpServer.username
  password,    \* AiohttpServer.password
  request,     \* the Authorization header of the last request, None without one
  response,    \* the HTTP status the last request was answered with, 0 before any
  handled      \* whether the downstream handler was invoked for the last request

tvars == <<raw, _inputs, _outputs, locktime, version, op, err, ret>>
svars == <<input, read_cursor, sop, serr, sret>>
dvars == <<lockfile, written, recent, listening, pc, address>>
rvars == <<username, password, request, response, handled>>
vars == <<tvars, svars, dvars, rvars>>

Self == [raw |-> raw, ins |-> _inputs, outs |-> _outputs,
         locktime |-> locktime, version |-> version]

\* The object and the call's outcome after a method that returned r.
Becomes(r, name) ==
  /\ raw' = r.T.raw
  /\ _inputs' = r.T.ins
  /\ _outputs' = r.T.outs
  /\ locktime' = r.T.locktime
  /\ version' = r.T.version
  /\ op' = name
  /\ err' = r.err
  /\ ret' = r.val
  /\ UNCHANGED <<svars, dvars, rvars>>

\* _BCDataStream.__init__
StreamInit ==
  /\ input = None
  /\ read_cursor = 0
  /\ sop = <<"__init__">>
  /\ serr = ""
  /\ sret = None

\* The processes that call get_fd_or_server for one config path.
NumProcs == 3
Procs == 1..NumProcs
NoFile == 0

\* No lockfile at the path; every process is about to call get_fd_or_server.
DaemonInit ==
  /\ lockfile = NoFile
  /\ written = [p \in Procs |-> FALSE]
  /\ recent = [p \in Procs |-> FALSE]
  /\ listening = [p \in Procs |-> FALSE]
  /\ pc = [p \in Procs |-> "get_fd_or_server"]
  /\ address = [p \in Procs |-> NoFile]

\* AiohttpServer.__init__(username, password) for credentials of the sets.
ServerInit(usernames, passwords) ==
  /\ username \in usernames
  /\ password \in passwords
  /\ request = None
  /\ response = 0
  /\ handled = FALSE

\* A daemon and a REST server nothing has called yet.
ServicesInit == DaemonInit /\ ServerInit({ <<117>> }, { <<>> })

\* Transaction.__init__(raw) for a raw of raws, and
\* Transaction.from_io(inputs, outputs) for the inputs of lists.
TransactionInit(raws, lists) ==
  /\ \/ /\ raw \in raws
        /\ _inputs = NoList
        /\ _outputs = NoList
        /\ op = <<"__init__">>
     \/ /\ raw = None
        /\ _inputs \in { SomeList(l) : l \in lists }
        /\ _outputs = SomeList(<<Output1>>)
        /\ op = <<"from_io">>
  /\ locktime = LE(0, 4)
  /\ version = LE(1, 4)
  /\ err = ""
  /\ ret = None

Init == TransactionInit(LifeRaws, LifeLists) /\ StreamInit /\ ServicesInit

(***************************************************************************)
(* Actions: one per method of Transaction                                   *)
(***************************************************************************)
Inputs == Becomes(Transaction_inputs(Self), <<"inputs">>)

Outputs == Becomes(Transaction_outputs(Self), <<"outputs">>)

Deserialize == Becomes(Transaction_deserialize(Self), <<"deserialize">>)

Update == \E r \in UpdateRaws : Becomes(Transaction_update(Self, r), <<"update">>)

Str == Becomes(Transaction_str(Self), <<"__str__">>)

AsDict == Becomes(Transaction_as_dict(Self), <<"as_dict">>)

Serialize ==
  \E e \in BOOLEAN : Becomes(Transaction_serialize(Self, e), <<"serialize", Bool(e)>>)

IsComplete == Becomes(Transaction_is_complete(Self), <<"is_complete">>)

Txid == Becomes(Transaction_txid(Self), <<"txid">>)

GetFee ==
  /\ ~ _inputs.none => \A k \in 1..Len(_inputs.list) :
        _inputs.list[k].value = Absent \/ IsSmall(_inputs.list[k].value)
  /\ ~ _outputs.none => \A k \in 1..Len(_outputs.list) : IsSmall(_outputs.list[k].value)
  /\ Becomes(Transaction_get_fee(Self), <<"get_fee">>)

AddInputs ==
  /\ _inputs.none \/ Len(_inputs.list) < MaxInputs
  /\ \E t \in TxinDomain : Becomes(Transaction_add_inputs(Self, <<t>>), <<"add_inputs">>)

AddOutputs ==
  /\ _outputs.none \/ Len(_outputs.list) < MaxOutputs
  /\ \E o \in OutputDomain : Becomes(Transaction_add_outputs(Self, <<o>>), <<"add_outputs">>)

\* The signatures (without the sighash byte) a caller may hold for input i:
\* those the keys make of the input's preimage, or one that is nobody's
\* when the preimage cannot be computed.
SigsFor(T, i) ==
  LET h == Transaction_preimage_hash(T, i)
  IN IF h.err = "" THEN { Sign(k, h.val) : k \in Keys } ELSE { JunkSig }

AddSignatureToTxin ==
  /\ ~ _inputs.none
  /\ \E i \in 1..Len(_inputs.list) :
       /\ _inputs.list[i].signatures # AbsentList
       /\ \E j \in 1..Len(_inputs.list[i].signatures), sig \in SigsFor(Self, i) :
            Becomes(Transaction_add_signature_to_txin(Self, i, j, sig \o <<nHashType % 256>>),
                    <<"add_signature_to_txin", <<i>>, <<j>> >>)

\* add_signature_to_txin as a cosigner calls it: the signature of key k over
\* the preimage of input i, at the position of k's key in the sorted
\* public keys of the input.
AddSignatureInPlace ==
  /\ ~ _inputs.none
  /\ \E i \in 1..Len(_inputs.list), k \in Keys :
       /\ _inputs.list[i].signatures # AbsentList
       /\ _inputs.list[i].x_pubkeys # AbsentList
       /\ Transaction_preimage_hash(Self, i).err = ""
       /\ LET sig == Sign(k, Transaction_preimage_hash(Self, i).val) \o <<nHashType % 256>>
              j == IndexOf(get_sorted_pubkeys(_inputs.list[i]).pubkeys, Pub(k), 1)
          IN /\ j # 0
             /\ Becomes(Transaction_add_signature_to_txin(Self, i, j, sig),
                        <<"add_signature_to_txin", <<i>>, <<j>> >>)

\* Public keys and signatures at their length on the wire: a compressed key
\* of 33 bytes, an uncompressed key of 65 bytes, and a DER signature with
\* its sighash byte, n bytes in all.
CompressedKey(b) == <<2>> \o [k \in 1..32 |-> b]
UncompressedKey(b) == <<4>> \o [k \in 1..64 |-> b]
FullSig(n) == <<48>> \o [k \in 1..(n - 2) |-> 1] \o <<nHashType % 256>>

\* The lengths of a low-S DER signature with its sighash byte.
SigLengths == { 71, 72 }

\* Inputs of a wallet with keys of full length: p2pkh and p2pk of either
\* encoding, and multisig of the same and of mixed encodings.
SizeTxins ==
  LET c == CompressedKey(1)
      c2 == CompressedKey(2)
      u == UncompressedKey(3)
      v == LE(1000, 8)
      p2sh(m, xs) == WalletTxin("p2sh", 1, xs, m, v, P2SH_Address(hash_160(xs[1])))
  IN { WalletTxin("p2pkh", 1, <<c>>, 1, v, P2PKH_Address(hash_160(c))),
       WalletTxin("p2pkh", 1, <<u>>, 1, v, P2PKH_Address(hash_160(u))),
       [WalletTxin("p2pk", 1, <<c>>, 1, v, None) EXCEPT !.pubkeys = <<c>>],
       [WalletTxin("p2pk", 1, <<u>>, 1, v, None) EXCEPT !.pubkeys = <<u>>],
       p2sh(1, <<c, c2>>), p2sh(2, <<c, c2>>),
       p2sh(1, <<c, u>>), p2sh(1, <<u, c>>), p2sh(2, <<c, u>>) }

SizeLists ==
  { <<t>> : t \in SizeTxins }
    \cup { <<WalletTxin("p2pkh", 2, <<CompressedKey(1)>>, 1, LE(1000, 8),
                         P2PKH_Address(hash_160(CompressedKey(1)))), t>> :
            t \in { x \in SizeTxins : x.type = "p2sh" /\ x.num_sig = 1 } }

\* add_signature_to_txin with a signature of full length, into an empty
\* slot of an input that is not complete.
AddFullSignature ==
  /\ ~ _inputs.none
  /\ \E i \in 1..Len(_inputs.list), n \in SigLengths :
       /\ ~ is_txin_complete(_inputs.list[i])
       /\ \E j \in 1..Len(_inputs.list[i].signatures) :
            /\ ~ Truthy(_inputs.list[i].signatures[j])
            /\ Becomes(Transaction_add_signature_to_txin(Self, i, j, FullSig(n)),
                       <<"add_signature_to_txin", <<i>>, <<j>> >>)

\* The key sets sign is called with: the keys of one holder, or of all.
GetSiglist ==
  /\ ~ _inputs.none
  /\ \E i \in 1..Len(_inputs.list) :
       Becomes(Transaction_get_siglist(Self, i), <<"get_siglist", <<i>> >>)

InputScript ==
  /\ ~ _inputs.none
  /\ \E i \in 1..Len(_inputs.list) :
       Becomes(Transaction_input_script(Self, i), <<"input_script", <<i>> >>)

KeypairSets ==
  { { XPub(1), Pub(1) }, UNION { { XPub(k), Pub(k) } : k \in Keys } }

SignTx == \E kp \in KeypairSets : Becomes(Transaction_sign(Self, kp), <<"sign">>)

\* The signature lists update_signatures is called with: one signature per
\* input, or a list that is one short or one long.
RECURSIVE SigLists(_, _, _)
SigLists(T, i, n) ==
  IF i > n THEN { <<>> }
  ELSE { <<x>> \o rest : x \in SigsFor(T, i), rest \in SigLists(T, i + 1, n) }

UpdateSignatures ==
  LET p == Transaction_inputs(Self)
      n == Len(p.T.ins.list)
  IN \E sigs \in (IF p.err = "" THEN SigLists(p.T, 1, n) ELSE {})
                   \cup { [k \in 1..(n + 1) |-> JunkSig], [k \in 1..(n - 1) |-> JunkSig] } :
       Becomes(Transaction_update_signatures(Self, sigs),
               <<"update_signatures", <<Len(sigs)>>, sigs>>)

BIP_LI01_sort == Becomes(Transaction_BIP_LI01_sort(Self), <<"BIP_LI01_sort">>)

\* The indexes of the inputs, as far as they are known before the call: a
\* raw transaction not parsed yet is parsed by the call.
InputIndexes ==
  LET p == Transaction_inputs(Self)
  IN IF p.err # "" \/ p.T.ins.none THEN {1} ELSE 1..Len(p.T.ins.list)

SerializePreimage ==
  \E i \in InputIndexes :
    /\ Becomes(Transaction_serialize_preimage(Self, i), <<"serialize_preimage", <<i>> >>)

PreimageHash ==
  \E i \in InputIndexes :
    /\ Becomes(Transaction_preimage_hash(Self, i), <<"preimage_hash", <<i>> >>)

SignTxin ==
  \E i \in InputIndexes, k \in Keys :
    /\ Becomes(Transaction_sign_txin(Self, i, k), <<"sign_txin", <<i>>, <<k>> >>)

(***************************************************************************)
(* Actions: one per method of _BCDataStream.  The stream is the record S    *)
(* of its fields, [input, read_cursor]; a method is an operator from S to   *)
(* [err, S, val].                                                           *)
(***************************************************************************)
\* The caps on the buffer's length and on the read cursor.
MaxBuffer == 5
MaxCursor == 7

\* The byte strings write is called with, the sizes write_compact_size is
\* called with, the lengths read_bytes is called with and the widths of the
\* fixed-width reads (uint16, uint32, uint64).
WriteDomain == { <<7>>, <<253, 1>> }
SizeDomain ==
  { MinusOne, LE(0, 8), LE(1, 8), LE(252, 8), LE(253, 8), LE(254, 8), LE(255, 8),
    LE(256, 8), LE(65535, 8), LE(65536, 8), LE(16777216, 8),
    <<255, 255, 255, 255, 0, 0, 0, 0>>, <<0, 0, 0, 0, 1, 0, 0, 0>>,
    <<1, 2, 3, 4, 5, 6, 7, 8>>, <<255, 255, 255, 255, 255, 255, 255, 255>> }
LengthDomain == 0..3
WidthDomain == { 2, 4, 8 }

Stream == [input |-> input, read_cursor |-> read_cursor]

SRet(e, S, v) == [err |-> e, S |-> S, val |-> v]

\* The stream and the call's outcome after a method that returned r.
StreamBecomes(r, name) ==
  /\ input' = r.S.input
  /\ read_cursor' = r.S.read_cursor
  /\ sop' = name
  /\ serr' = r.err
  /\ sret' = r.val
  /\ UNCHANGED <<tvars, dvars, rvars>>

\* _BCDataStream.clear
Stream_clear(S) == SRet("", [input |-> None, read_cursor |-> 0], None)

\* _BCDataStream.write
Stream_write(S, _bytes) ==
  SRet("", [S EXCEPT !.input = IF S.input = None THEN _bytes ELSE S.input \o _bytes],
       None)

\* _BCDataStream.write_compact_size
Stream_write_compact_size(S, size) ==
  With(write_compact_size(size), LAMBDA w :
    IF w.err # "" THEN SRet(w.err, S, None) ELSE Stream_write(S, w.val))

\* _BCDataStream.read_bytes: subscripting None raises TypeError, which the
\* method does not catch.
Stream_read_bytes(S, length) ==
  IF S.input = None THEN SRet("TypeError", S, None)
  ELSE With(read_bytes(S.input, S.read_cursor, length), LAMBDA r :
         SRet(r.err, [S EXCEPT !.read_cursor = r.cur], r.val))

\* _BCDataStream.read_compact_size: [err, S, val], val the size by its 8
\* little-endian bytes
Stream_read_compact_size(S) ==
  IF S.input = None THEN SRet("TypeError", S, None)
  ELSE With(ReadCompactSize64(S.input, S.read_cursor), LAMBDA r :
         SRet(r.err, [S EXCEPT !.read_cursor = r.cur],
              IF r.err = "" THEN r.val ELSE None))

\* _BCDataStream._read_num: every exception becomes SerializationError
Stream_read_num(S, size) ==
  IF S.input = None THEN SRet("SerializationError", S, None)
  ELSE With(_read_num(S.input, S.read_cursor, size), LAMBDA r :
         SRet(r.err, [S EXCEPT !.read_cursor = r.cur],
              IF r.err = "" THEN r.val ELSE None))

Clear == StreamBecomes(Stream_clear(Stream), <<"clear">>)

Write ==
  \E b \in WriteDomain :
    /\ input = None \/ Len(input) + Len(b) <= MaxBuffer
    /\ StreamBecomes(Stream_write(Stream, b), <<"write">>)

WriteCompactSize ==
  \E n \in SizeDomain :
    /\ input = None \/ Len(input) + Len(write_compact_size(n).val) <= MaxBuffer
    /\ StreamBecomes(Stream_write_compact_size(Stream, n), <<"write_compact_size", n>>)

ReadBytes ==
  \E n \in LengthDomain :
    /\ read_cursor + n <= MaxCursor
    /\ StreamBecomes(Stream_read_bytes(Stream, n), <<"read_bytes", <<n>> >>)

ReadCompactSize ==
  StreamBecomes(Stream_read_compact_size(Stream), <<"read_compact_size">>)

ReadNum ==
  \E w \in WidthDomain :
    StreamBecomes(Stream_read_num(Stream, w), <<"_read_num", <<w>> >>)

(***************************************************************************)
(* Specifications                                                           *)
(***************************************************************************)
Next ==
  \/ Inputs
  \/ Outputs
  \/ Deserialize
  \/ Update
  \/ Str
  \/ AsDict
  \/ Serialize
  \/ IsComplete
  \/ Txid
  \/ GetFee
  \/ AddInputs
  \/ AddOutputs
  \/ AddSignatureToTxin
  \/ SignTx
  \/ UpdateSignatures
  \/ BIP_LI01_sort

\* The life cycle of a Transaction: every method, on few transactions.
Spec == Init /\ [][Next]_vars

\* The codec: parsing, serializing and the queries, on every transaction
\* and every raw of the model.
CodecInit == TransactionInit(RawDomain, InputLists) /\ StreamInit /\ ServicesInit

CodecNext ==
  \/ Inputs
  \/ Outputs
  \/ Deserialize
  \/ Update
  \/ Str
  \/ AsDict
  \/ Serialize
  \/ IsComplete
  \/ Txid
  \/ GetFee

CodecSpec == CodecInit /\ [][CodecNext]_vars

\* Signing: the methods that fill signature slots, on every transaction and
\* every raw of the model.
SigningNext ==
  \/ Inputs
  \/ Str
  \/ IsComplete
  \/ AddSignatureToTxin
  \/ SignTx
  \/ UpdateSignatures

SigningSpec == CodecInit /\ [][SigningNext]_vars

\* The signature preimage: the methods that compute it, and the one that
\* stores a signature, on every transaction and every raw of the model.
PreimageNext ==
  \/ Inputs
  \/ SerializePreimage
  \/ PreimageHash
  \/ SignTxin
  \/ AddSignatureToTxin

\* Inputs without a known value whose preimage script can be built: a
\* pay-to-pubkey input of a wallet, an input of unknown type for which the
\* caller supplied the scriptCode, and a 2-of-2 multisig input.
PreimageLists ==
  { << P2pkTxin(1, 1, Absent),
       [UnknownTxin(2, <<172>>) EXCEPT !.scriptCode = <<172>>] >>,
    << P2shTxin(1, 2, Absent) >> }

PreimageInit == TransactionInit(RawDomain, InputLists \cup PreimageLists) /\ StreamInit /\ ServicesInit

PreimageSpec == PreimageInit /\ [][PreimageNext]_vars

\* Cosigning: the three ways a signature comes into a slot, each used as
\* its caller is meant to use it, on every transaction and every raw of the
\* model.
MultisigNext ==
  \/ Inputs
  \/ IsComplete
  \/ Txid
  \/ AddSignatureInPlace
  \/ SignTx
  \/ UpdateSignatures

MultisigSpec == CodecInit /\ [][MultisigNext]_vars

\* Sizes: transactions with keys and signatures of full length, signed
\* slot by slot and serialized for the wire and for the fee estimate.
\* An input of unknown type as a wallet builds it for a contract it can
\* sign: the script to emit, the script code to sign, the key and one slot.
ContractTxin(b, k, value) ==
  [WalletTxin("unknown", b, <<XPub(k)>>, 1, value, None)
     EXCEPT !.scriptSig = <<1, 7, 172>>, !.scriptCode = <<172>>]

\* Signing by a device: transactions of a wallet whose inputs all have a
\* value, the keys of which differ from input to input, next to every
\* transaction and every raw of the model.
UpdateLists ==
  { << P2pkhTxin(1, 1, LE(1000, 8)), P2pkhTxin(2, 2, LE(500, 8)) >>,
    << P2pkhTxin(1, 2, LE(1000, 8)), P2shTxin(2, 1, LE(500, 8)) >>,
    << P2pkhTxin(1, 1, LE(1000, 8)), P2shTxin(2, 2, LE(500, 8)) >>,
    << ContractTxin(1, 1, LE(1000, 8)) >> }

\* The raw transactions sign leaves in self.raw for a multisig input of a
\* wallet: complete (final form) or partly signed (pre-final form).
SignedRaws ==
  { Transaction_sign([raw |-> None, ins |-> SomeList(<<P2shTxin(1, m, LE(1000, 8))>>),
                      outs |-> SomeList(<<Output1>>), locktime |-> LE(0, 4),
                      version |-> LE(1, 4)], kp).T.raw :
      m \in {1, 2}, kp \in KeypairSets }

UpdateInit ==
  TransactionInit(RawDomain \cup SignedRaws, InputLists \cup UpdateLists) /\ StreamInit /\ ServicesInit

UpdateNext ==
  \/ Inputs
  \/ AddSignatureToTxin
  \/ SignTx
  \/ UpdateSignatures
  \/ GetSiglist
  \/ InputScript

UpdateSpec == UpdateInit /\ [][UpdateNext]_vars

\* Input scripts: every script of up to MaxScript bytes over the opcodes
\* that matter to the tokenizer and the classifier (OP_0, two direct pushes,
\* the three PUSHDATA opcodes, OP_CHECKSIG), the scripts input_script renders
\* for the inputs of a wallet, and scripts of two pushes the second of which
\* is no key.
MaxScript == 3
ScriptAlphabet == { 0, 1, 2, 76, 77, 78, 172 }
ShortScripts == UNION { [1..n -> ScriptAlphabet] : n \in 0..MaxScript }

RenderedScripts ==
  { input_script(get_sorted_pubkeys([t EXCEPT !.signatures = sigs]), FALSE) :
      t \in { P2pkhTxin(1, 1, Absent), P2shTxin(1, 1, Absent), P2shTxin(1, 2, Absent),
              P2pkTxin(1, 1, Absent) },
      sigs \in { <<None>>, <<ForeignSig(1)>>, <<None, None>>, <<ForeignSig(1), None>>,
                 <<None, ForeignSig(2)>>, <<ForeignSig(1), ForeignSig(2)>> } }

ScriptDomain ==
  ShortScripts \cup RenderedScripts
    \cup { <<1, 7, 1, 9>>, <<1, 7, 2, 9, 9>>, <<77, 2, 0, 1, 2>>, <<78, 1, 0, 0, 0, 9>>,
           <<0, 1, 7, 1, 7, 5, 81, 2, 2, 1, 81, 174>> }

\* The raw transaction of one input with the script sc, without and with the
\* 8-byte value that follows the sequence of an incomplete input.
ScriptRaw(sc, with_value) ==
  RawOf(<< IF with_value
           THEN [UnknownTxin(1, sc) EXCEPT !.num_sig = 1, !.value = LE(1000, 8)]
           ELSE UnknownTxin(1, sc) >>)

ClassifyRaws ==
  { ScriptRaw(sc, v) : sc \in ScriptDomain, v \in BOOLEAN } \cup { RawOf(<<CoinbaseTxin>>) }

ClassifyInit == TransactionInit(ClassifyRaws, {}) /\ StreamInit /\ ServicesInit

ClassifyNext ==
  \/ Inputs
  \/ Serialize

ClassifySpec == ClassifyInit /\ [][ClassifyNext]_vars

SizeInit == TransactionInit({}, SizeLists) /\ StreamInit /\ ServicesInit

SizeNext ==
  \/ AddFullSignature
  \/ Serialize

SizeSpec == SizeInit /\ [][SizeNext]_vars

\* One _BCDataStream, next to a Transaction nobody calls.
StreamNext ==
  \/ Clear
  \/ Write
  \/ WriteCompactSize
  \/ ReadBytes
  \/ ReadCompactSize
  \/ ReadNum

StreamSpecInit == TransactionInit({None}, {}) /\ StreamInit /\ ServicesInit

StreamSpec == StreamSpecInit /\ [][StreamNext]_vars

(***************************************************************************)
(* daemon.py: the lockfile handshake.  Each process runs get_fd_or_server; *)
(* a step is one call to the file system or to the network, which is       *)
(* where the operating system can switch to another process.               *)
(***************************************************************************)

\* What the steps of process p leave alone.
DaemonStep(p, to) ==
  /\ pc' = [pc EXCEPT ![p] = to]
  /\ UNCHANGED <<tvars, svars, rvars>>

\* get_fd_or_server: os.open(lockfile, O_CREAT | O_EXCL | O_WRONLY).  It
\* creates the file and the call returns the descriptor, or it raises
\* OSError because a file is there and get_server is called.
OpenExclusive(p) ==
  /\ pc[p] = "get_fd_or_server"
  /\ IF lockfile = NoFile
     THEN /\ lockfile' = p
          /\ DaemonStep(p, "fd")
     ELSE /\ UNCHANGED lockfile
          /\ DaemonStep(p, "get_server")
  /\ UNCHANGED <<written, recent, listening, address>>

\* get_server: open(lockfile), f.read(), ast.literal_eval.  Without a file
\* the open raises (except Exception) and create_time is still None, so
\* None is returned; an empty file raises SyntaxError; otherwise the
\* address and the create_time are read and the server proxy is made.
ReadLockfile(p) ==
  /\ pc[p] = "get_server"
  /\ IF lockfile = NoFile THEN /\ DaemonStep(p, "remove_lockfile")
                               /\ UNCHANGED address
     ELSE IF ~ written[lockfile] THEN /\ DaemonStep(p, "getsize")
                                      /\ UNCHANGED address
     ELSE /\ address' = [address EXCEPT ![p] = lockfile]
          /\ DaemonStep(p, "ping")
  /\ UNCHANGED <<lockfile, written, recent, listening>>

\* get_server, except SyntaxError: os.path.getsize(lockfile).  It raises
\* out of get_fd_or_server when the file has gone; otherwise create_time
\* is None and get_server returns None.
Getsize(p) ==
  /\ pc[p] = "getsize"
  /\ DaemonStep(p, IF lockfile = NoFile THEN "OSError" ELSE "remove_lockfile")
  /\ UNCHANGED <<lockfile, written, recent, listening, address>>

\* get_server: server.ping().  An answer returns the server; a refused
\* connection returns None when create_time is more than a second old and
\* sleeps and reads the lockfile again otherwise.
Ping(p) ==
  /\ pc[p] = "ping"
  /\ DaemonStep(p, IF listening[address[p]] THEN "server"
                   ELSE IF recent[address[p]] THEN "get_server"
                   ELSE "remove_lockfile")
  /\ UNCHANGED <<lockfile, written, recent, listening, address>>

\* get_fd_or_server: remove_lockfile(lockfile) after get_server returned
\* None, then the loop starts again.
RemoveLockfile(p) ==
  /\ pc[p] = "remove_lockfile"
  /\ lockfile' = NoFile
  /\ DaemonStep(p, "get_fd_or_server")
  /\ UNCHANGED <<written, recent, listening, address>>

\* Daemon.init_server(config, fd): the RPC server is made and its address
\* and the time are written to the descriptor, or making it fails and the
\* descriptor is closed with nothing written.
InitServer(p) ==
  /\ pc[p] = "fd"
  /\ \E bound \in BOOLEAN :
       /\ listening' = [listening EXCEPT ![p] = bound]
       /\ written' = [written EXCEPT ![p] = bound]
       /\ recent' = [recent EXCEPT ![p] = bound]
  /\ DaemonStep(p, "daemon")
  /\ UNCHANGED <<lockfile, address>>

\* time.time() moves more than a second past the create_time p wrote.
SecondPasses(p) ==
  /\ recent[p]
  /\ recent' = [recent EXCEPT ![p] = FALSE]
  /\ UNCHANGED <<tvars, svars, rvars, lockfile, written, listening, pc, address>>

\* Daemon.stop: the server stops answering and remove_lockfile unlinks
\* whatever file is at the path.
Stop(p) ==
  /\ pc[p] = "daemon"
  /\ listening' = [listening EXCEPT ![p] = FALSE]
  /\ lockfile' = NoFile
  /\ DaemonStep(p, "stopped")
  /\ UNCHANGED <<written, recent, address>>

\* The process that holds the descriptor or runs the daemon exits without
\* stop (it is killed): its lockfile stays.
Exit(p) ==
  /\ pc[p] \in { "fd", "daemon" }
  /\ listening' = [listening EXCEPT ![p] = FALSE]
  /\ DaemonStep(p, "exited")
  /\ UNCHANGED <<lockfile, written, recent, address>>

DaemonSpecInit == TransactionInit({None}, {}) /\ StreamInit /\ ServicesInit

DaemonNext ==
  \E p \in Procs :
    \/ OpenExclusive(p)
    \/ ReadLockfile(p)
    \/ Getsize(p)
    \/ Ping(p)
    \/ RemoveLockfile(p)
    \/ InitServer(p)
    \/ SecondPasses(p)
    \/ Stop(p)
    \/ Exit(p)

DaemonSpec == DaemonSpecInit /\ [][DaemonNext]_vars

(***************************************************************************)
(* restapi.py: AiohttpServer.authenticate.  A str is the sequence of its   *)
(* code points, a bytes object the sequence of its bytes.                  *)
(***************************************************************************)

\* str.partition(sep): what is before the first sep and what is after it;
\* the whole string and the empty one when there is no sep.
partition(str, sep) ==
  IF \E k \in 1..Len(str) : str[k] = sep
  THEN With(CHOOSE k \in 1..Len(str) : str[k] = sep /\ \A j \in 1..(k - 1) : str[j] # sep,
            LAMBDA k : << SubSeq(str, 1, k - 1), SubSeq(str, k + 1, Len(str)) >>)
  ELSE << str, <<>> >>

\* util.to_bytes(str, 'utf8'), for code points below 2048.
to_bytes(str) ==
  Flatten([k \in 1..Len(str) |->
             IF str[k] < 128 THEN << str[k] >>
             ELSE << 192 + (str[k] \div 64), 128 + (str[k] % 64) >>])

\* util.to_string(bytes, 'utf8'): the code points, or UnicodeDecodeError.
\* Sequences of one and of two bytes are decoded; a lead byte of a longer
\* sequence is outside the requests of HeaderDomain.
RECURSIVE Utf8Decode(_, _, _)
Utf8Decode(bytes, i, out) ==
  IF i > Len(bytes) THEN [err |-> "", val |-> out]
  ELSE IF bytes[i] < 128 THEN Utf8Decode(bytes, i + 1, Append(out, bytes[i]))
  ELSE IF /\ bytes[i] \in 194..223
          /\ i < Len(bytes)
          /\ bytes[i + 1] \in 128..191
    THEN Utf8Decode(bytes, i + 2, Append(out, (bytes[i] - 192) * 64 + (bytes[i + 1] - 128)))
  ELSE [err |-> "UnicodeDecodeError", val |-> None]

to_string(bytes) == Utf8Decode(bytes, 1, <<>>)

\* The place of a byte in the base64 alphabet, 64 for a byte outside it.
B64Index(c) ==
  IF c \in 65..90 THEN c - 65
  ELSE IF c \in 97..122 THEN c - 71
  ELSE IF c \in 48..57 THEN c + 4
  ELSE IF c = 43 THEN 62
  ELSE IF c = 47 THEN 63
  ELSE 64

B64Pad == 61

\* base64.b64decode(s) with validate=False (binascii.a2b_base64): bytes
\* outside the alphabet are skipped, complete padding ends the input, and
\* data that stops inside a quad raises binascii.Error.
RECURSIVE B64Run(_, _, _, _, _, _)
B64Run(s, i, quad_pos, leftchar, pads, out) ==
  IF i > Len(s)
  THEN (IF quad_pos # 0 THEN [err |-> "binascii.Error", val |-> None]
        ELSE [err |-> "", val |-> out])
  ELSE IF s[i] = B64Pad
    THEN (IF quad_pos >= 2 /\ quad_pos + pads + 1 >= 4
          THEN [err |-> "", val |-> out]
          ELSE B64Run(s, i + 1, quad_pos, leftchar,
                      IF quad_pos >= 2 THEN pads + 1 ELSE pads, out))
  ELSE IF B64Index(s[i]) = 64 THEN B64Run(s, i + 1, quad_pos, leftchar, pads, out)
  ELSE IF quad_pos = 0 THEN B64Run(s, i + 1, 1, B64Index(s[i]), 0, out)
  ELSE IF quad_pos = 1
    THEN B64Run(s, i + 1, 2, B64Index(s[i]) % 16, 0,
                Append(out, leftchar * 4 + (B64Index(s[i]) \div 16)))
  ELSE IF quad_pos = 2
    THEN B64Run(s, i + 1, 3, B64Index(s[i]) % 4, 0,
                Append(out, leftchar * 16 + (B64Index(s[i]) \div 4)))
  ELSE B64Run(s, i + 1, 0, 0, 0, Append(out, leftchar * 64 + B64Index(s[i])))

b64decode(s) == B64Run(s, 1, 0, 0, 0, <<>>)

\* util.constant_time_compare(val1, val2)
constant_time_compare(val1, val2) == to_bytes(val1) = to_bytes(val2)

Basic == << 66, 97, 115, 105, 99 >>
Space == 32
Colon == 58

\* The answers of restapi.py, and the answer aiohttp gives when the
\* middleware raises.
Unauthorized == 401
Forbidden == 403
ServerError == 500
HandlerResponse == 200

Answer(status, called) == [response |-> status, handled |-> called]

\* AiohttpServer.authenticate(request, handler), by the Authorization
\* header of the request.
authenticate(self_username, self_password, auth_string) ==
  IF self_password = <<>> THEN Answer(HandlerResponse, TRUE)
  ELSE IF auth_string = None THEN Answer(Unauthorized, FALSE)
  ELSE IF partition(auth_string, Space)[1] # Basic THEN Answer(Unauthorized, FALSE)
  ELSE With(b64decode(to_bytes(partition(auth_string, Space)[2])), LAMBDA encoded :
    IF encoded.err # "" THEN Answer(ServerError, FALSE)
    ELSE With(to_string(encoded.val), LAMBDA credentials :
      IF credentials.err # "" THEN Answer(ServerError, FALSE)
      ELSE IF ~ (/\ constant_time_compare(partition(credentials.val, Colon)[1], self_username)
                 /\ constant_time_compare(partition(credentials.val, Colon)[2], self_password))
        THEN Answer(Forbidden, FALSE)
      ELSE Answer(HandlerResponse, TRUE)))

\* The character of the base64 alphabet at a place.
B64Char(k) ==
  IF k < 26 THEN 65 + k
  ELSE IF k < 52 THEN 71 + k
  ELSE IF k < 62 THEN k - 4
  ELSE IF k = 62 THEN 43
  ELSE 47

\* base64.b64encode(bytes), as a client makes the header.
RECURSIVE b64encode(_)
b64encode(bytes) ==
  IF Len(bytes) = 0 THEN <<>>
  ELSE IF Len(bytes) = 1
    THEN << B64Char(bytes[1] \div 4), B64Char((bytes[1] % 4) * 16), B64Pad, B64Pad >>
  ELSE IF Len(bytes) = 2
    THEN << B64Char(bytes[1] \div 4),
            B64Char((bytes[1] % 4) * 16 + (bytes[2] \div 16)),
            B64Char((bytes[2] % 16) * 4), B64Pad >>
  ELSE << B64Char(bytes[1] \div 4),
          B64Char((bytes[1] % 4) * 16 + (bytes[2] \div 16)),
          B64Char((bytes[2] % 16) * 4 + (bytes[3] \div 64)),
          B64Char(bytes[3] % 64) >> \o b64encode(SubSeq(bytes, 4, Len(bytes)))

\* Configured user names and passwords: "u", "", "u:v", "é";
\* "", "p", "p:q", "q".
Usernames == { << 117 >>, <<>>, << 117, 58, 118 >>, << 233 >> }
Passwords == { <<>>, << 112 >>, << 112, 58, 113 >>, << 113 >> }

\* What follows the scheme in a header: the encoded credentials of a user
\* name and a password, the same after a second space, and "", "a", "abc",
\* "/w==" and "dTpw!" .
Payloads ==
  { b64encode(to_bytes(u \o << Colon >> \o pw)) : u \in Usernames, pw \in Passwords }
    \cup { << Space >> \o b64encode(to_bytes(<< 117, 58, 112 >>)) }
    \cup { <<>>, << 97 >>, << 97, 98, 99 >>, << 47, 119, 61, 61 >>,
           << 100, 84, 112, 119, 33 >> }

\* The schemes "Basic", "basic", "Bearer" and "".
Schemes == { Basic, << 98, 97, 115, 105, 99 >>, << 66, 101, 97, 114, 101, 114 >>, <<>> }

\* The Authorization headers of the requests: none, a scheme alone, and a
\* scheme, a space and a payload.
HeaderDomain ==
  { None } \cup Schemes
    \cup { sch \o << Space >> \o pl : sch \in Schemes, pl \in Payloads }

\* One request passes through the middleware.
Authenticate ==
  \E auth_string \in HeaderDomain :
    /\ request' = auth_string
    /\ response' = authenticate(username, password, auth_string).response
    /\ handled' = authenticate(username, password, auth_string).handled
    /\ UNCHANGED <<username, password, tvars, svars, dvars>>

RestInit ==
  /\ TransactionInit({None}, {}) /\ StreamInit /\ DaemonInit
  /\ ServerInit(Usernames, Passwords)

RestNext == Authenticate

RestSpec == RestInit /\ [][RestNext]_vars

(***************************************************************************)
(* Properties                                                               *)
(***************************************************************************)
\* Every input that is no coinbase holds as many signatures as its num_sig.
EachInputComplete(ins) ==
  \A k \in 1..Len(ins) :
    ins[k].type = "coinbase" \/ Len(FilledSigs(ins[k].signatures)) = ins[k].num_sig

\* C1: is_complete() returns true if and only if every input that is no
\* coinbase, taken alone, has as many filled signature slots as its num_sig.
C1_IsCompleteIffEachInputComplete ==
  (op = <<"is_complete">> /\ err = "")
    => (ret = True <=> EachInputComplete(_inputs.list))

\* A step that is a call of update_signatures with a list whose length is
\* not the number of inputs, on a transaction that parses.
WrongCountCall ==
  /\ op'[1] = "update_signatures"
  /\ ~ _inputs'.none
  /\ op'[2][1] # Len(_inputs'.list)

\* What the call leaves alone: the cached raw, and every input (a raw
\* transaction not parsed before is parsed by the call).
WrongCountCallChangesNothing ==
  /\ raw' = raw
  /\ _inputs' = IF _inputs.none THEN SomeList(deserialize(raw).inputs) ELSE _inputs

\* C2 as stated: update_signatures with a list of the wrong length always
\* raises the count-mismatch error, whether the transaction is complete or
\* not, and changes no signature slot, scriptSig or cached raw.
C2_WrongCountAlwaysRaises ==
  [][WrongCountCall => (err' = "RuntimeError" /\ WrongCountCallChangesNothing)]_vars

\* C2 amended: update_signatures with a list of the wrong length raises the
\* count-mismatch error exactly when is_complete() is false, returns
\* silently when it is true, and in both cases changes no signature slot,
\* scriptSig or cached raw.
C2_WrongCountRaisesUnlessComplete ==
  [][WrongCountCall =>
       /\ err' = (IF IsCompleteList(_inputs'.list) THEN "" ELSE "RuntimeError")
       /\ WrongCountCallChangesNothing]_vars

\* An incomplete transaction with a cached raw has just refused a list of
\* the wrong length.
C2_Witness ==
  /\ op[1] = "update_signatures"
  /\ ~ _inputs.none
  /\ op[2][1] # Len(_inputs.list)
  /\ err = "RuntimeError"
  /\ raw # None

\* The methods that change inputs, outputs or signatures.
Mutators ==
  { "add_inputs", "add_outputs", "add_signature_to_txin", "sign",
    "update_signatures", "BIP_LI01_sort" }

\* C3: after every method that changes inputs, outputs or signatures,
\* whether it returned or raised, the cached raw is unset or is the
\* serialization of the inputs and outputs the transaction holds.
C3_RawUnsetOrCurrent ==
  (op[1] \in Mutators /\ raw # None /\ ~ _inputs.none /\ ~ _outputs.none)
    => raw = SerializeTx(version, _inputs.list, _outputs.list, locktime, FALSE)

\* C4: sign changes no signature slot that was filled when it was entered,
\* and writes no slot of an input whose filled count was its num_sig.
C4_SignKeepsFilledSlots ==
  [][(op'[1] = "sign" /\ ~ _inputs.none) =>
       \A i \in 1..Len(_inputs.list) :
         _inputs.list[i].signatures # AbsentList =>
           /\ \A j \in 1..Len(_inputs.list[i].signatures) :
                Truthy(_inputs.list[i].signatures[j])
                  => _inputs'.list[i].signatures[j] = _inputs.list[i].signatures[j]
           /\ Len(FilledSigs(_inputs.list[i].signatures)) = _inputs.list[i].num_sig
                => _inputs'.list[i].signatures = _inputs.list[i].signatures]_vars

\* The parse of a raw transaction as a record without the error field.
FieldsOf(d) ==
  [version |-> d.version, inputs |-> d.inputs, outputs |-> d.outputs,
   lockTime |-> d.lockTime]

\* Parsing b, serializing the result and parsing again gives what the first
\* parse gave.
RoundTrips(b) ==
  With(deserialize(b), LAMBDA d1 :
    /\ d1.err = ""
    /\ With(deserialize(SerializeTx(d1.version, d1.inputs, d1.outputs, d1.lockTime, FALSE)),
            LAMBDA d2 : d2.err = "" /\ FieldsOf(d2) = FieldsOf(d1)))

\* C5: the raw a Transaction is made of being a serialization of this codec
\* (estimate_size false), parsing it, serializing the result and parsing
\* again yields the same inputs, outputs, version and locktime.
C5_RoundTrip == (raw \in GoodRaws /\ _inputs.none) => RoundTrips(raw)

\* C6: serialize (estimate_size false) writes the 8-byte value exactly for
\* the inputs that are no coinbase and incomplete, and the parse of what it
\* wrote reads a value exactly for the inputs it was written for.
C6_ValueFieldAgreed ==
  (~ _inputs.none /\ ~ _outputs.none) =>
    With(SortedInputs(_inputs.list), LAMBDA ins :
    With(deserialize(SerializeTx(version, ins, _outputs.list, locktime, FALSE)),
         LAMBDA d :
      /\ \A k \in 1..Len(ins) :
           WritesValue(ins[k], FALSE)
             <=> (ins[k].type # "coinbase" /\ ~ is_txin_complete(ins[k]))
      /\ d.err = ""
      /\ Len(d.inputs) = Len(ins)
      /\ \A k \in 1..Len(ins) :
           (d.inputs[k].value # Absent) <=> WritesValue(ins[k], FALSE)))

\* C7: the read cursor never exceeds the length of the buffer, and a
\* read_bytes(n) that returned has returned n bytes.
C7_ReadsStayInBuffer ==
  /\ input # None => read_cursor <= Len(input)
  /\ (sop[1] = "read_bytes" /\ serr = "") => Len(sret) = sop[2][1]

\* C8: what outputs() returns of a Transaction that holds a raw is the
\* outputs of that raw, also after a deserialize() or update(raw) that
\* failed.
C8_OutputsAreOfCurrentRaw ==
  (op = <<"outputs">> /\ err = "" /\ raw # None /\ ~ _outputs.none)
    => With(deserialize(raw), LAMBDA d : d.err = "" /\ d.outputs = _outputs.list)

\* C9: parsing a transaction whose input carries any script (no coinbase)
\* does not raise; the input of a script no template matches is typed
\* unknown and keeps its script.
C9_ClassificationNeverRaises ==
  \A sc \in UnknownScripts :
    (op = <<"inputs">> /\ raw = RawOf(<<UnknownTxin(1, sc)>>))
      => /\ err = ""
         /\ ~ _inputs.none
         /\ _inputs.list[1].type = "unknown" => _inputs.list[1].scriptSig = sc

\* C10: get_fee() returns the sum of the input values minus the sum of the
\* output values when every input has a value, and fails with
\* InputValueMissing when an input has none.
C10_GetFee ==
  (op = <<"get_fee">> /\ ~ _inputs.none /\ ~ _outputs.none) =>
     IF \E k \in 1..Len(_inputs.list) : _inputs.list[k].value = Absent
     THEN err = "InputValueMissing"
     ELSE /\ err = ""
          /\ ret = <<SumSeq([k \in 1..Len(_inputs.list) |-> IntOf(_inputs.list[k].value)])
                     - SumSeq([k \in 1..Len(_outputs.list) |->
                                 IntOf(_outputs.list[k].value)])>>

\* A step that is a call of serialize_preimage, preimage_hash or sign_txin
\* for an input that has no value.
PreimageCallWithoutValue ==
  /\ op'[1] \in { "serialize_preimage", "preimage_hash", "sign_txin" }
  /\ ~ _inputs'.none
  /\ _inputs'.list[op'[2][1]].value = Absent

\* The signature slots of a list of inputs, and those the transaction had
\* before the step (a raw transaction not parsed before is parsed by the
\* call).
SlotsOf(ins) == [k \in 1..Len(ins) |-> ins[k].signatures]
SlotsBefore ==
  IF _inputs.none THEN SlotsOf(deserialize(raw).inputs) ELSE SlotsOf(_inputs.list)

\* Whether the code can build the preimage script of an input: it is a
\* p2pkh or p2sh input, a pay-to-pubkey input that holds its public key, or
\* an input of unknown type that holds a scriptCode.
HasPreimageScript(txin) ==
  \/ txin.type \in { "p2pkh", "p2sh" }
  \/ txin.type = "p2pk" /\ txin.pubkeys # AbsentList /\ txin.pubkeys # <<>>
       /\ txin.pubkeys[1] # PubkeyPlaceholder
  \/ txin.type = "unknown" /\ txin.scriptCode # Absent

\* C11 as stated: the preimage of an input without a value fails with
\* InputValueMissing whatever the type of the input, and no signature slot
\* changes.
C11_MissingValueWhateverType ==
  [][PreimageCallWithoutValue =>
       /\ err' = "InputValueMissing"
       /\ SlotsOf(_inputs'.list) = SlotsBefore]_vars

\* C11 amended: the preimage of an input without a value always fails and
\* changes no signature slot; it fails with InputValueMissing when the
\* preimage script of the input can be built, and otherwise with the error
\* of building the script: ValueError for a parsed pay-to-pubkey input,
\* KeyError for an unknown input without scriptCode, RuntimeError for a
\* coinbase input.
C11_MissingValueFailsAfterScript ==
  [][PreimageCallWithoutValue =>
       LET txin == _inputs'.list[op'[2][1]]
       IN /\ err' = (IF HasPreimageScript(txin) THEN "InputValueMissing"
                      ELSE IF txin.type = "p2pk" THEN "ValueError"
                      ELSE IF txin.type = "unknown" THEN "KeyError"
                      ELSE "RuntimeError")
          /\ SlotsOf(_inputs'.list) = SlotsBefore]_vars

\* sign_txin has just failed with InputValueMissing on a p2pkh input
\* without a value, next to an input that has one.
C11_Witness ==
  /\ op[1] = "sign_txin"
  /\ err = "InputValueMissing"
  /\ ~ _inputs.none
  /\ Len(_inputs.list) = 2
  /\ _inputs.list[op[2][1]].type = "p2pkh"
  /\ _inputs.list[op[2][1]].value = Absent

\* The inputs the transaction had before the step (a raw transaction not
\* parsed before is parsed by the call).
InputsBefore == IF _inputs.none THEN SomeList(deserialize(raw).inputs) ELSE _inputs

\* C12: update_signatures on a transaction for which is_complete() is true
\* returns without error and leaves every signature slot, every scriptSig
\* and the cached raw as they were.
C12_UpdateSignaturesNoOpWhenComplete ==
  [][(/\ op'[1] = "update_signatures"
      /\ ~ _inputs'.none
      /\ IsCompleteList(InputsBefore.list))
       => (err' = "" /\ raw' = raw /\ _inputs' = InputsBefore)]_vars

\* update_signatures, called with one signature per input on a complete
\* transaction that has no cached raw, has returned and there is still no
\* cached raw.
C12_Witness ==
  /\ op[1] = "update_signatures"
  /\ err = ""
  /\ ~ _inputs.none
  /\ op[2][1] = Len(_inputs.list)
  /\ IsCompleteList(_inputs.list)
  /\ raw = None

\* The positions, in the public keys of a p2sh input, of the signers of the
\* signatures its rendered script lists, in the order of the script (the
\* placeholders and the signatures of keys that are not the input's are
\* left out).
RECURSIVE SignerPositions(_, _, _)
SignerPositions(tokens, pubkeys, k) ==
  IF k >= Len(tokens) THEN <<>>
  ELSE LET sig == tokens[k].vch
           pos == IF sig = NO_SIGNATURE \/ Len(sig) < 2 THEN 0
                  ELSE IndexOf(pubkeys, Pub(sig[2]), 1)
       IN (IF pos = 0 THEN <<>> ELSE <<pos>>) \o SignerPositions(tokens, pubkeys, k + 1)

SignaturesInKeyOrder(txin) ==
  LET t == get_sorted_pubkeys(txin)
      ps == SignerPositions(_script_GetOp(input_script(t, FALSE)), t.pubkeys, 2)
  IN \A a, b \in 1..Len(ps) : a < b => ps[a] < ps[b]

\* C13: whenever add_signature_to_txin, update_signatures or sign has run,
\* the rendered script of every p2sh input lists its signatures in the
\* order of the input's sorted public keys, and an input that was complete
\* (as many filled slots as num_sig) before the call is complete after it.
C13_OrderedAndStaysComplete ==
  [][(op'[1] \in { "add_signature_to_txin", "update_signatures", "sign" }
        /\ ~ _inputs'.none)
       => \A k \in 1..Len(_inputs'.list) :
            _inputs'.list[k].type = "p2sh"
              => /\ SignaturesInKeyOrder(_inputs'.list[k])
                 /\ is_txin_complete(InputsBefore.list[k])
                      => is_txin_complete(_inputs'.list[k])]_vars

C15_ParsedOnce ==
  /\ [](op = <<"__init__">> => (_inputs.none /\ _outputs.none))
  /\ [][op'[1] \in { "inputs", "outputs", "deserialize" } =>
          /\ (~ _inputs.none /\ ~ _outputs.none)
               => /\ err' = ""
                  /\ <<_inputs', _outputs', locktime', version', raw'>>
                       = <<_inputs, _outputs, locktime, version, raw>>
          /\ (_inputs.none /\ _outputs.none /\ raw # None /\ deserialize(raw).err = "")
               => /\ err' = ""
                  /\ _inputs' = SomeList(deserialize(raw).inputs)
                  /\ _outputs' = SomeList(deserialize(raw).outputs)]_vars

\* inputs() has returned the lists of a transaction whose raw parses to
\* other inputs than the transaction holds.
C15_Witness ==
  /\ op = <<"inputs">>
  /\ err = ""
  /\ raw # None
  /\ ~ _inputs.none
  /\ deserialize(raw).err = ""
  /\ _inputs.list # deserialize(raw).inputs

\* The bytes of s from offset a (0-based) on, n of them.
Part(s, a, n) == SubSeq(s, a + 1, a + n)

\* The preimage p of the input txin of a transaction with the inputs ins
\* has the ten fields of the layout, in their order and with their widths.
PreimageLayout(p, txin, ins) ==
  LET D == Len(sha256d(<<>>))
      script == get_preimage_script(txin).val
      L == Len(var_int(Len(script))) + Len(script)
  IN /\ Len(p) = 4 + D + D + 36 + L + 8 + 4 + D + 4 + 4
     /\ Part(p, 0, 4) = version
     /\ Part(p, 4, D) = sha256d(Flatten([k \in 1..Len(ins) |->
                                           Reverse(ins[k].prevout_hash) \o ins[k].prevout_n]))
     /\ Part(p, 4 + D, D) = sha256d(Flatten([k \in 1..Len(ins) |-> SequenceOf(ins[k])]))
     /\ Part(p, 4 + 2 * D, 36) = Reverse(txin.prevout_hash) \o txin.prevout_n
     /\ Part(p, 40 + 2 * D, L) = var_int(Len(script)) \o script
     /\ Part(p, 40 + 2 * D + L, 8) = txin.value
     /\ Part(p, 48 + 2 * D + L, 4) = SequenceOf(txin)
     /\ Part(p, 52 + 2 * D + L, D)
          = sha256d(Flatten([k \in 1..Len(_outputs.list) |->
                               TxOutput_to_bytes(_outputs.list[k])]))
     /\ Part(p, 52 + 3 * D + L, 4) = locktime
     /\ Part(p, 56 + 3 * D + L, 4) = <<65, 0, 0, 0>>

C17_EstimateAtLeastActual ==
  (op = <<"serialize", True>> /\ err = "" /\ EachInputComplete(_inputs.list))
    => Len(ret) >= Len(SerializeTx(version, _inputs.list, _outputs.list, locktime, FALSE))

\* A raw transaction whose input count, the byte after the version, is 0.
DeclaresZeroInputs(r) == r # None /\ Len(r) >= 5 /\ r[5] = 0

\* C18: a call that parses a raw transaction declaring zero inputs (update
\* always, inputs, outputs and deserialize when no list is there yet)
\* fails with the assertion's error, and the failed parse installs nothing:
\* the inputs stay unset and the outputs, locktime and version are what
\* they were before the call.
C18_ZeroInputsRejected ==
  [][(/\ DeclaresZeroInputs(raw')
      /\ \/ op'[1] = "update"
         \/ op'[1] \in { "inputs", "outputs", "deserialize" }
              /\ _inputs.none /\ _outputs.none)
       => /\ err' = "AssertionError"
          /\ _inputs'.none
          /\ <<_outputs', locktime', version'>> = <<_outputs, locktime, version>>]_vars

\* update has refused a raw transaction that declares zero inputs.
C18_Witness ==
  /\ op = <<"update">>
  /\ err = "AssertionError"
  /\ DeclaresZeroInputs(raw)
  /\ _inputs.none


\* The compact-size encoding as the format states it: one byte below 253,
\* then a marker and the 2, 4 or 8 low little-endian bytes of n.
CompactSizeOf(n) ==
  IF (\A k \in 2..8 : n[k] = 0) /\ n[1] < 253 THEN <<n[1]>>
  ELSE IF \A k \in 3..8 : n[k] = 0 THEN <<253, n[1], n[2]>>
  ELSE IF \A k \in 5..8 : n[k] = 0 THEN <<254, n[1], n[2], n[3], n[4]>>
  ELSE <<255>> \o n

\* What a write_compact_size(n) step appended to the buffer.
BufferBefore == IF input = None THEN <<>> ELSE input
WroteCompactSize(n) ==
  /\ sop'[1] = "write_compact_size"
  /\ sop'[2] = n

\* C19: write_compact_size(n) with 0 <= n < 2^64 succeeds and appends one
\* byte n when n < 253, 0xFD and 2 little-endian bytes when n < 2^16, 0xFE
\* and 4 bytes when n < 2^32, 0xFF and 8 bytes otherwise; 252 takes one byte,
\* 253 and 65535 three with marker 0xFD, 65536 five with marker 0xFE.
C19_CompactSizeEncoding ==
  [][ /\ \A n \in SizeDomain \ {MinusOne} :
           WroteCompactSize(n) =>
             /\ serr' = ""
             /\ input' = BufferBefore \o CompactSizeOf(n)
             /\ Len(input') - Len(BufferBefore) \in {1, 3, 5, 9}
      /\ WroteCompactSize(LE(252, 8)) => input' = BufferBefore \o <<252>>
      /\ WroteCompactSize(LE(253, 8)) => input' = BufferBefore \o <<253, 253, 0>>
      /\ WroteCompactSize(LE(65535, 8)) => input' = BufferBefore \o <<253, 255, 255>>
      /\ WroteCompactSize(LE(65536, 8)) => input' = BufferBefore \o <<254, 0, 0, 1, 0>>
    ]_vars

C19_Witness ==
  /\ sop = <<"write_compact_size", <<0, 0, 0, 0, 1, 0, 0, 0>> >>
  /\ input = <<255, 0, 0, 0, 0, 1, 0, 0, 0>>

\* The stream holds what write_compact_size(n) wrote into an empty stream
\* and nothing has been read.
HoldsOnlyCompactSize ==
  /\ sop[1] = "write_compact_size"
  /\ sop[2] # MinusOne
  /\ serr = ""
  /\ read_cursor = 0
  /\ input = write_compact_size(sop[2]).val

\* C20: read_compact_size right after write_compact_size(n), 0 <= n < 2^64,
\* into an empty stream returns n and leaves the read cursor at the end of
\* the written bytes.
C20_CompactSizeRoundTrip ==
  [][ (HoldsOnlyCompactSize /\ sop'[1] = "read_compact_size") =>
        /\ serr' = ""
        /\ sret' = sop[2]
        /\ read_cursor' = Len(input)
        /\ input' = input
    ]_vars

C20_Witness ==
  /\ sop = <<"read_compact_size">>
  /\ serr = ""
  /\ sret = <<255, 255, 255, 255, 255, 255, 255, 255>>
  /\ read_cursor = 9
  /\ input = <<255, 255, 255, 255, 255, 255, 255, 255, 255>>


\* The transaction an update_signatures step started from, its inputs parsed.
TBefore == [Self EXCEPT !.ins = InputsBefore]

\* The slots of input i whose public key is a key recovered from the
\* signature sig against the preimage hash of input i (none when the input
\* has no public keys or no preimage hash can be computed for it).
MatchingSlots(i, sig) ==
  LET b == InputsBefore.list[i]
      h == Transaction_preimage_hash(TBefore, i)
  IN IF b.x_pubkeys = AbsentList \/ h.err # "" THEN {}
     ELSE { j \in 1..Len(get_sorted_pubkeys(b).pubkeys) :
              \E recid \in 0..3 :
                from_recoverable_signature(sig, recid, h.val)
                  = get_sorted_pubkeys(b).pubkeys[j] }

SlotsUnchanged(i) ==
  _inputs'.list[i].signatures = InputsBefore.list[i].signatures

\* An update_signatures(signatures) step that got past its two checks: the
\* inputs were there or could be parsed, the transaction was incomplete and
\* there is one signature per input.
UpdateSignaturesRan ==
  /\ op'[1] = "update_signatures"
  /\ Transaction_inputs(Self).err = ""
  /\ ~ _inputs'.none
  /\ ~ IsCompleteList(InputsBefore.list)
  /\ op'[2][1] = Len(InputsBefore.list)

\* What update_signatures(signatures) did to input i: slot j changed only
\* when public key j is a key recovered from signatures[i], and then to that
\* signature; when no key matches the slots are as before, no error was
\* raised, and the inputs after i whose signature matches a key hold it.
OnlyMatchingChanged(i) ==
  /\ \A j \in 1..Len(_inputs'.list[i].signatures) :
       _inputs'.list[i].signatures[j] # InputsBefore.list[i].signatures[j]
         => /\ j \in MatchingSlots(i, op'[3][i])
            /\ _inputs'.list[i].signatures[j] = op'[3][i] \o <<nHashType % 256>>
  /\ MatchingSlots(i, op'[3][i]) = {}
       => /\ SlotsUnchanged(i)
          /\ err' = ""
          /\ \A k \in (i + 1)..Len(InputsBefore.list) :
               MatchingSlots(k, op'[3][k]) # {}
                 => \E j \in 1..Len(_inputs'.list[k].signatures) :
                      _inputs'.list[k].signatures[j] = op'[3][k] \o <<nHashType % 256>>

\* Every input has public keys and a preimage hash.
EachInputHashable ==
  \A i \in 1..Len(InputsBefore.list) :
    /\ InputsBefore.list[i].x_pubkeys # AbsentList
    /\ Transaction_preimage_hash(TBefore, i).err = ""

\* C21 as stated: update_signatures changes slot j of input i only when
\* public key j of the input is a key recovered from signatures[i] against
\* the input's preimage hash; an input whose signature matches none of its
\* public keys keeps its slots, raises no error and does not keep the inputs
\* after it from being processed.
C21_UpdateSignaturesOnlyMatching ==
  [][UpdateSignaturesRan
       => \A i \in 1..Len(InputsBefore.list) : OnlyMatchingChanged(i)]_vars

\* C21, where a preimage hash can be computed for every input.
C21_OnlyMatchingWhenHashable ==
  [][(UpdateSignaturesRan /\ EachInputHashable)
       => \A i \in 1..Len(InputsBefore.list) : OnlyMatchingChanged(i)]_vars

\* update_signatures was given a signature of the wrong key for the first
\* input and one of the right key for the second: it returned, the first
\* input has no signature and the second holds its own.
C21_Witness ==
  /\ op[1] = "update_signatures"
  /\ err = ""
  /\ ~ _inputs.none
  /\ Len(_inputs.list) = 2
  /\ _inputs.list[1].type = "p2pkh"
  /\ op[3][1][2] # KeyOf(_inputs.list[1].x_pubkeys[1])
  /\ _inputs.list[1].signatures = <<None>>
  /\ _inputs.list[2].signatures = <<op[3][2] \o <<nHashType % 256>> >>

\* C22: in every state the transaction reaches, parsed or built and however
\* signed, every p2sh input has as many signature slots as extended public
\* keys.
C22_SlotsMatchKeys ==
  ~ _inputs.none =>
    \A i \in 1..Len(_inputs.list) :
      _inputs.list[i].type = "p2sh"
        => Len(_inputs.list[i].signatures) = Len(_inputs.list[i].x_pubkeys)

C23_WitnessPreFinal ==
  /\ op[1] = "get_siglist"
  /\ err = ""
  /\ _inputs.list[op[2][1]].num_sig = 2
  /\ Len(FilledSigs(_inputs.list[op[2][1]].signatures)) = 1
  /\ NO_SIGNATURE \in { ret[2][k] : k \in 1..Len(ret[2]) }
  /\ ret[1] = <<XPub(1), XPub(2)>>

\* The script sc is one complete data push: an opcode 1..75 that many bytes
\* follow, or a PUSHDATA opcode, its length, and that many bytes.
PushHeader(sc, at) ==
  IF at > Len(sc) \/ sc[at] = 0 \/ sc[at] > OP_PUSHDATA4 THEN [hdr |-> 0, size |-> 0]
  ELSE IF sc[at] < OP_PUSHDATA1 THEN [hdr |-> 1, size |-> sc[at]]
  ELSE IF sc[at] = OP_PUSHDATA1
    THEN (IF at + 1 > Len(sc) THEN [hdr |-> 0, size |-> 0]
          ELSE [hdr |-> 2, size |-> sc[at + 1]])
  ELSE IF sc[at] = OP_PUSHDATA2
    THEN (IF at + 2 > Len(sc) THEN [hdr |-> 0, size |-> 0]
          ELSE [hdr |-> 3, size |-> sc[at + 1] + 256 * sc[at + 2]])
  ELSE IF at + 4 > Len(sc) \/ sc[at + 3] # 0 \/ sc[at + 4] # 0
    THEN [hdr |-> 0, size |-> 0]
  ELSE [hdr |-> 5, size |-> sc[at + 1] + 256 * sc[at + 2]]

\* The pushes the script sc consists of from position at on, as the list of
\* the pushed items; <<None>> when it is not a sequence of complete pushes.
RECURSIVE PushesFrom(_, _)
PushesFrom(sc, at) ==
  IF at > Len(sc) THEN <<>>
  ELSE LET h == PushHeader(sc, at)
       IN IF h.hdr = 0 \/ at + h.hdr + h.size - 1 > Len(sc) THEN <<None>>
          ELSE LET rest == PushesFrom(sc, at + h.hdr + h.size)
               IN IF rest = <<None>> THEN <<None>>
                  ELSE <<SubSeq(sc, at + h.hdr, at + h.hdr + h.size - 1)>> \o rest

IsPushes(sc, n) == Len(PushesFrom(sc, 1)) = n /\ PushesFrom(sc, 1) # <<None>>

\* inputs() has parsed a raw transaction of one input.
ParsedOneInput ==
  /\ op = <<"inputs">>
  /\ err = ""
  /\ ~ _inputs.none
  /\ Len(_inputs.list) = 1

\* C24 as stated: an input whose script is exactly one data push is typed
\* p2pk and the pushed item is recorded as its public key.
C24_OnePushIsPubkey ==
  (ParsedOneInput /\ IsPushes(_inputs.list[1].scriptSig, 1)) =>
    /\ _inputs.list[1].type = "p2pk"
    /\ \/ _inputs.list[1].pubkeys = PushesFrom(_inputs.list[1].scriptSig, 1)
       \/ _inputs.list[1].x_pubkeys = PushesFrom(_inputs.list[1].scriptSig, 1)

\* C24: an input that is no coinbase and whose script is exactly one data
\* push is typed p2pk with num_sig 1; the pushed item is recorded as its one
\* signature, and its public key and extended public key are the placeholder
\* "(pubkey)".
C24_OnePushIsSignature ==
  (ParsedOneInput /\ IsPushes(_inputs.list[1].scriptSig, 1)
     /\ _inputs.list[1].prevout_hash # ZeroHash) =>
    /\ _inputs.list[1].type = "p2pk"
    /\ _inputs.list[1].num_sig = 1
    /\ _inputs.list[1].signatures = PushesFrom(_inputs.list[1].scriptSig, 1)
    /\ _inputs.list[1].pubkeys = <<PubkeyPlaceholder>>
    /\ _inputs.list[1].x_pubkeys = <<PubkeyPlaceholder>>

\* inputs() has parsed an input whose script is PUSHDATA1 of one byte.
C24_Witness ==
  /\ ParsedOneInput
  /\ _inputs.list[1].scriptSig = <<76, 1, 2>>
  /\ _inputs.list[1].type = "p2pk"
  /\ _inputs.list[1].signatures = << <<2>> >>

\* The script rs is an m-of-n multisig redeem script: OP_m, n pushed keys,
\* OP_n, OP_CHECKMULTISIG, with 1 <= m <= n <= 16.
IsRedeemScript(rs, m, n) ==
  /\ Len(rs) >= 3
  /\ rs[1] = OP_1 + m - 1
  /\ rs[Len(rs) - 1] = OP_1 + n - 1
  /\ rs[Len(rs)] = OP_CHECKMULTISIG
  /\ 1 <= m /\ m <= n /\ n <= 16
  /\ IsPushes(SubSeq(rs, 2, Len(rs) - 2), n)

\* A signature slot as it is parsed from a pushed item.
SlotOf(item) == IF item = NO_SIGNATURE THEN None ELSE item

\* The p2sh part of C25: OP_0, then k >= 1 pushes the last of which is an
\* m-of-n redeem script, is typed p2sh with num_sig m, n public keys and one
\* slot per push between OP_0 and the redeem script, the sentinel being an
\* empty slot.
ClassifiedP2sh(txin) ==
  LET sc == txin.scriptSig
      items == PushesFrom(sc, 2)
      k == Len(items)
  IN (Len(sc) >= 1 /\ sc[1] = OP_0 /\ k >= 1 /\ items # <<None>>)
       => \A m, n \in 1..3 :
            IsRedeemScript(items[k], m, n)
              => /\ txin.type = "p2sh"
                 /\ txin.num_sig = m
                 /\ Len(txin.pubkeys) = n
                 /\ Len(txin.x_pubkeys) = n
                 /\ txin.signatures = [j \in 1..(k - 1) |-> SlotOf(items[j])]

\* The wildcard part of C25: a type is given only to scripts whose pushes
\* have the opcodes 1..OP_PUSHDATA4; OP_0 is matched by OP_0 alone, at the
\* head of a p2sh script.
WildcardIsPush(txin) ==
  LET toks == _script_GetOp(txin.scriptSig)
      pushes(from) == \A j \in from..Len(toks) : toks[j].op \in 1..OP_PUSHDATA4
  IN /\ txin.type = "p2pk" <=> (Len(toks) = 1 /\ pushes(1))
     /\ txin.type = "p2pkh" => (Len(toks) = 2 /\ pushes(1))
     /\ txin.type = "p2sh" => (Len(toks) >= 2 /\ toks[1].op = OP_0 /\ pushes(2))

C25_WitnessP2pkh ==
  /\ ParsedOneInput
  /\ _inputs.list[1].type = "p2pkh"
  /\ _inputs.list[1].signatures = <<None>>

C25_WitnessNoKey ==
  /\ ParsedOneInput
  /\ _inputs.list[1].scriptSig = <<1, 7, 1, 9>>
  /\ _inputs.list[1].type = "unknown"

\* The script of the first input of a raw transaction of this module: it
\* follows the version, the input count, the outpoint and its own length.
ScriptOf(r) == SubSeq(r, 43, 42 + r[42])

\* The length a push at offset start (0-based) of the script sc declares,
\* zero when the script ends inside the length, and the bytes its opcode and
\* length take.
DeclaredLength(sc, start) ==
  LET opcode == sc[start + 1]
  IN IF opcode < OP_PUSHDATA1 THEN opcode
     ELSE IF opcode = OP_PUSHDATA1
       THEN (IF start + 2 <= Len(sc) THEN sc[start + 2] ELSE 0)
     ELSE IF opcode = OP_PUSHDATA2
       THEN (IF start + 3 <= Len(sc) THEN FromLE(SubSeq(sc, start + 2, start + 3)) ELSE 0)
     ELSE IF start + 5 <= Len(sc) THEN FromLE(SubSeq(sc, start + 2, start + 5)) ELSE 0

HeaderLength(opcode) ==
  IF opcode < OP_PUSHDATA1 THEN 1
  ELSE IF opcode = OP_PUSHDATA1 THEN 2
  ELSE IF opcode = OP_PUSHDATA2 THEN 3
  ELSE 5

\* The tokens toks are a tokenization of the script sc: no more tokens than
\* bytes; each token starts where the one before it ends and ends later;
\* the data of a push is the slice of the script behind its length, cut at
\* the end of the script, and no longer than the declared length; an opcode
\* that is no push has no data; the last token ends at or behind the end of
\* the script.
IsTokenization(sc, toks) ==
  /\ Len(toks) <= Len(sc)
  /\ Len(sc) > 0 => (Len(toks) > 0 /\ toks[Len(toks)].i >= Len(sc))
  /\ \A k \in 1..Len(toks) :
       LET start == IF k = 1 THEN 0 ELSE toks[k - 1].i
           t == toks[k]
       IN /\ start < Len(sc)
          /\ t.i > start
          /\ t.op = sc[start + 1]
          /\ IF t.op <= OP_PUSHDATA4
             THEN /\ t.vch # None
                  /\ Len(t.vch) <= DeclaredLength(sc, start)
                  /\ t.i = start + HeaderLength(t.op) + DeclaredLength(sc, start)
                  /\ t.vch = Slice(sc, start + HeaderLength(t.op), t.i)
             ELSE /\ t.vch = None
                  /\ t.i = start + 1

\* C26: for every script, also one cut inside a push length or inside the
\* pushed data, _script_GetOp ends and yields finitely many tokens whose end
\* offsets increase strictly, the data of each being a slice of the script
\* no longer than the length the push declares.
C26_TokenizerTolerant ==
  raw # None => IsTokenization(ScriptOf(raw), _script_GetOp(ScriptOf(raw)))

\* inputs() has parsed a script that ends inside the length of a PUSHDATA2:
\* the one token has no data.
C26_Witness ==
  /\ ParsedOneInput
  /\ ScriptOf(raw) = <<77, 1>>
  /\ _inputs.list[1].scriptSig = <<77, 1>>
  /\ _inputs.list[1].signatures = << <<>> >>

\* inputs() has parsed a script that ends inside the pushed data.
C26_WitnessCutData ==
  /\ ParsedOneInput
  /\ ScriptOf(raw) = <<2, 1>>
  /\ _inputs.list[1].signatures = << <<1>> >>

\* The pushes of the signatures get_siglist lists for an input.
SignaturePushes(txin) ==
  Flatten([k \in 1..Len(get_siglist(txin, FALSE).sig_list) |->
             push_script(get_siglist(txin, FALSE).sig_list[k])])

\* The script input_script has returned follows the type of the input.
ScriptFollowsType(txin, script) ==
  IF txin.type = "p2pk" THEN script = SignaturePushes(txin)
  ELSE IF txin.type = "p2pkh"
    THEN script = SignaturePushes(txin) \o push_script(get_siglist(txin, FALSE).pk_list[1])
  ELSE IF txin.type = "p2sh"
    THEN script = <<OP_0>> \o SignaturePushes(txin)
                    \o push_script(multisig_script(get_siglist(txin, FALSE).pk_list,
                                                   txin.num_sig))
  ELSE script # None /\ script = txin.scriptSig

\* C27: the script input_script returns is, by the type of the input, the
\* signature pushes (p2pk), the signature push and the push of the chosen
\* public key (p2pkh), OP_0, the signature pushes and the pushed redeem
\* script (p2sh), or the stored script (unknown, coinbase); and the stored
\* script of an unknown or coinbase input is the same after sign,
\* update_signatures and add_signature_to_txin as before.
C27_ScriptFollowsType ==
  /\ []((op[1] = "input_script" /\ err = "")
          => ScriptFollowsType(_inputs.list[op[2][1]], ret))
  /\ [][(op'[1] \in { "add_signature_to_txin", "update_signatures", "sign" }
           /\ ~ _inputs'.none /\ Transaction_inputs(Self).err = "")
          => \A i \in 1..Len(InputsBefore.list) :
               InputsBefore.list[i].type \in { "unknown", "coinbase" }
                 => _inputs'.list[i].scriptSig = InputsBefore.list[i].scriptSig]_vars

\* C27, where no signature has been stored in an unknown input: the typed
\* forms hold, and inputs without signature slots keep their stored script.
C27_WhereNoSlotWasSet ==
  /\ []((op[1] = "input_script" /\ err = "")
          => \/ ScriptFollowsType(_inputs.list[op[2][1]], ret)
             \/ /\ _inputs.list[op[2][1]].type = "unknown"
                /\ _inputs.list[op[2][1]].signatures \notin { <<>>, AbsentList }
                /\ ret = _inputs.list[op[2][1]].scriptSig)
  /\ [][(op'[1] \in { "add_signature_to_txin", "update_signatures", "sign" }
           /\ ~ _inputs'.none /\ Transaction_inputs(Self).err = "")
          => \A i \in 1..Len(InputsBefore.list) :
               (InputsBefore.list[i].type \in { "unknown", "coinbase" }
                  /\ InputsBefore.list[i].signatures \in { <<>>, AbsentList })
                 => _inputs'.list[i].scriptSig = InputsBefore.list[i].scriptSig]_vars

\* input_script has returned the script of a p2sh input holding a signature.
C27_Witness ==
  /\ op[1] = "input_script" /\ err = ""
  /\ _inputs.list[op[2][1]].type = "p2sh"
  /\ \E k \in 1..Len(_inputs.list[op[2][1]].signatures) :
       _inputs.list[op[2][1]].signatures[k] # None

\* Every input that is no coinbase has at most num_sig filled signature slots.
AtMostNumSig(ins) ==
  \A k \in 1..Len(ins) :
    ins[k].type = "coinbase" \/ Len(FilledSigs(ins[k].signatures)) <= ins[k].num_sig

\* C29: when every input that is no coinbase has at most num_sig filled
\* signature slots, the same is true after a call of sign or of
\* update_signatures, so it stays true along any sequence of such calls.
C29_AtMostNumSigKept ==
  [][(op'[1] \in { "sign", "update_signatures" }
        /\ ~ _inputs'.none /\ Transaction_inputs(Self).err = ""
        /\ AtMostNumSig(InputsBefore.list))
       => AtMostNumSig(_inputs'.list)]_vars

\* C29 for sign alone.
C29_SignKeepsAtMostNumSig ==
  [][(op'[1] = "sign"
        /\ ~ _inputs'.none /\ Transaction_inputs(Self).err = ""
        /\ AtMostNumSig(InputsBefore.list))
       => AtMostNumSig(_inputs'.list)]_vars

\* The processes to which get_fd_or_server has returned the descriptor of
\* the lockfile and that have neither exited nor removed the lockfile.
Holders == { p \in Procs : pc[p] \in { "fd", "daemon" } }

\* C28: of the processes that call get_fd_or_server for one config path,
\* at most one holds a descriptor of the lockfile while it is alive and
\* has not removed the lockfile; every other process has a server handle
\* or is still inside the loop of get_fd_or_server.
C28_OneDescriptorHolder ==
  /\ Cardinality(Holders) <= 1
  /\ Holders # {}
       => \A p \in Procs \ Holders :
            pc[p] \in { "server", "get_fd_or_server", "get_server", "getsize",
                        "ping", "remove_lockfile", "stopped", "exited" }

\* C28, for the file itself: the file at the path was created by a process
\* to which os.open returned a descriptor, and a process that has a server
\* handle got it from a process whose init_server had written its address.
C28_FileHasCreator ==
  /\ lockfile # NoFile => pc[lockfile] \in { "fd", "daemon", "stopped", "exited" }
  /\ \A p \in Procs : pc[p] = "server" => written[address[p]]

\* The header names the Basic scheme: it is "Basic", or starts "Basic ".
UsesBasic(h) ==
  /\ h # None
  /\ \/ h = Basic
     \/ Len(h) > Len(Basic) /\ SubSeq(h, 1, Len(Basic) + 1) = Basic \o << Space >>

\* What follows "Basic " in the header.
EncodedPart(h) == SubSeq(h, Len(Basic) + 2, Len(h))

\* The header names the Basic scheme and what follows decodes to exactly
\* the user name, a colon and the password.
CarriesCredentials(h, u, pw) ==
  /\ UsesBasic(h)
  /\ b64decode(EncodedPart(h)).err = ""
  /\ b64decode(EncodedPart(h)).val = to_bytes(u \o << Colon >> \o pw)

\* The middleware has answered a request.
Answered == response # 0

\* C30: with a password that is not empty the handler is invoked only for
\* a request whose Authorization header names the Basic scheme and decodes
\* to exactly the configured user name and password; a request without the
\* header is answered 401, one with another scheme 401, one with wrong
\* credentials 403, and the handler is invoked for none of the three.  With
\* an empty password the handler is invoked for every request.
C30_AuthenticateGuardsHandler ==
  Answered =>
    /\ password # <<>> =>
         /\ handled => CarriesCredentials(request, username, password)
         /\ request = None => (response = Unauthorized /\ ~ handled)
         /\ (request # None /\ ~ UsesBasic(request))
              => (response = Unauthorized /\ ~ handled)
         /\ (UsesBasic(request) /\ ~ CarriesCredentials(request, username, password))
              => (response = Forbidden /\ ~ handled)
    /\ password = <<>> => handled

\* What follows "Basic " decodes to a string.
Decodable(h) ==
  /\ b64decode(EncodedPart(h)).err = ""
  /\ to_string(b64decode(EncodedPart(h)).val).err = ""

\* C30, with the wrong credentials that decode to a string answered 403;
\* those that do not decode are answered with a server error, and the
\* handler is not invoked for them either.
C30_WhereCredentialsDecode ==
  Answered =>
    /\ password # <<>> =>
         /\ handled => CarriesCredentials(request, username, password)
         /\ request = None => (response = Unauthorized /\ ~ handled)
         /\ (request # None /\ ~ UsesBasic(request))
              => (response = Unauthorized /\ ~ handled)
         /\ (/\ UsesBasic(request) /\ Decodable(request)
             /\ ~ CarriesCredentials(request, username, password))
              => (response = Forbidden /\ ~ handled)
         /\ (UsesBasic(request) /\ ~ Decodable(request))
              => (response = ServerError /\ ~ handled)
    /\ password = <<>> => handled

\* A request with the configured credentials has reached the handler of a
\* server whose password is not empty.
C30_Witness ==
  /\ Answered /\ password # <<>> /\ handled
  /\ CarriesCredentials(request, username, password)

\* A request with the credentials of another password has been answered 403.
C30_WitnessForbidden ==
  /\ Answered /\ password = << 112 >> /\ username = << 117 >>
  /\ request = Basic \o << Space >> \o b64encode(<< 117, 58, 113 >>)
  /\ response = Forbidden /\ ~ handled

=============================================================================
